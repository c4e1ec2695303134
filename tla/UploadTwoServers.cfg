SPECIFICATION FairSpec
CONSTANTS
    Ids = {u1}
    Paths = {p1}
    Keys = {k1}
    Data = {x}
    MaxLength = 1
    h1 = h1
    h2 = h2
    server = server
    server2 = server2
    Handlers = {h1,h2}
    Procs = {server,server2}
    Home <- TwoServers
    PageLimit = 3
    MaxCrashes = 0
    MaxFaults = 1
    None = None
    Hole = Hole
INVARIANTS
    FileHasObject
PROPERTIES
    EveryCallReturns
