CONSTANTS
    a = a
    b = b
    z = z
    Clients = {a, b, z}
    NumServers = 2
    KeyHash = 2
    Custom = {z}
    CustomIndex <- MCCustomIndex
    Limit = 1
    Base = 2
    Width = 3
    Salts <- MCSalts
    MaxAttempts = 3

SPECIFICATION Spec

INVARIANTS
    BodiesExclude

PROPERTIES
    NoStaleWrite
    ClientsKeepPromise
