SPECIFICATION FairSpec
CONSTANTS
    MaxLocal = 2
    MaxRemote = 2
    MaxOffers = 2
    MaxAnswers = 1
    MaxEvents = 1
INVARIANTS SdpThenAllIce RemoteCandidatesKept LastNewsIsState
PROPERTIES SilentWhenClosed NegotiationEnds
CHECK_DEADLOCK FALSE
