SPECIFICATION FairSpec
CONSTANTS
    w1 = w1
    w2 = w2
    server = server
    server2 = server2
    Keys = {k1, k2}
    MaxId = 2
    Procs = {server}
    Hashers = {w1, w2}
    Home <- OneServer
    MaxAttempts = 2
    MaxTasksPerRun = 2
    RecoveryLimit = 1
    MaxMishaps = 1
    None = None
PROPERTIES TasksSettle
CHECK_DEADLOCK FALSE
