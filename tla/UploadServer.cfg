SPECIFICATION Spec
CONSTANTS
    Ids = {u1}
    Paths = {p1}
    Keys = {k1}
    Data = {x,y}
    MaxLength = 2
    h1 = h1
    h2 = h2
    server = server
    server2 = server2
    Handlers = {h1,h2}
    Procs = {server,tool}
    Home <- OneServer
    PageLimit = 3
    MaxCrashes = 1
    MaxFaults = 0
    None = None
    Hole = Hole
SYMMETRY Symmetry
INVARIANTS
    TypeOK
    SnapshotCurrent
    PublishedExactlyAcked
    PublishesWhatWasHashed
    AckedBytesKept
PROPERTIES
    RecoveryConverges
    ImplementsContract
