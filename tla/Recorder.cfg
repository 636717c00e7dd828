SPECIFICATION FairSpec
CONSTANTS
    d1 = d1  d2 = d2  small = small  large = large  odd = odd
    Decoders <- MCDecoders
    Sizes <- MCSizes
    Encodable <- MCEncodable
    NoSize = NoSize
    QueueLimit = 2
    MaxFrames = 3
    MaxStarts = 2
INVARIANTS RecordingIsAlive FilesInOrder
PROPERTIES RecordingSpec StopReturns FramesAreTaken
CHECK_DEADLOCK FALSE
