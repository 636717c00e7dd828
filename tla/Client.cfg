SPECIFICATION FairSpec
CONSTANTS
    Parts = 2
    MaxTries = 2
    MaxConnects = 2
    MaxLines = 1
    MaxArrived = 2
INVARIANTS LinesWhole SocketsAreSound EveryLinePassed ShownIsTrue
PROPERTY DisconnectReturns
CHECK_DEADLOCK FALSE
