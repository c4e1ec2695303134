SPECIFICATION FairSpec
CONSTANTS
    Jobs = {j1, j2}
    Keys = {k1, k2}
    Workers = {w1}
    MaxFiles = 2
    MaxMishaps = 1
    None = None
INVARIANTS RunningIsHeld FilesAccounted DownloadsWhole
PROPERTIES CancelSticks Ends
