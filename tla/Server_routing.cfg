CONSTANTS
    Sockets = {s1, s2, s3}
    Users = {u1, u2}
    NoSocket = NoSocket
    NoUser = NoUser
    BadUser = BadUser
    MaxPending = 2
    MaxClients = 2
    Traffic <- RoutingTraffic
    MaxInFlight = 1
    MaxLines = 3
    MaxConnects = 3
SPECIFICATION Spec
SYMMETRY Symmetry
INVARIANTS
    RegistryConsistent
    NoMisdelivery
    PresenceConverges
PROPERTIES DirectorySpec
