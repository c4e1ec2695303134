SPECIFICATION Spec
SYMMETRY Symmetry
CONSTANTS
    w1 = w1
    w2 = w2
    server = server
    server2 = server2
    Keys = {k1, k2}
    MaxId = 2
    Procs = {server, server2}
    Hashers = {w1, w2}
    Home <- TwoServers
    MaxAttempts = 2
    MaxTasksPerRun = 2
    RecoveryLimit = 2
    MaxMishaps = 1
    None = None
INVARIANTS TypeOK TablesAgree ClaimedOnce DigestUnlessOverlap
PROPERTIES ResultsAreFinal
CHECK_DEADLOCK FALSE
