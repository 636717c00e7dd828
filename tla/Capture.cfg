SPECIFICATION FairSpec
CONSTANTS
    Sizes <- TwoSizes
    NoTexture = NoTexture
    MaxPictures = 4
    MaxStarts = 2
    MaxDevices = 4
INVARIANTS TrackHasWorker CopiesFit
PROPERTIES TrackSpec StartAndStopReturn EachDuplicationShows
CHECK_DEADLOCK FALSE
