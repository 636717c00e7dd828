CONSTANTS
    Sockets = {s1, s2}
    Users = {u1, u2}
    NoSocket = NoSocket
    NoUser = NoUser
    BadUser = BadUser
    MaxPending = 1
    MaxClients = 2
    Traffic <- OtherTraffic
    MaxInFlight = 1
    MaxLines = 2
    MaxConnects = 2
SPECIFICATION FairSpec
PROPERTIES
    EndedClientLeaves
    QueueDrains
INVARIANT WithinLimits
