SPECIFICATION FairSpec
CONSTANTS
    Initial = root
    Users = {root, u}
    Sids = {s1, s2}
    Logins = {l1}
    Admins = {a1}
    Workers = {w1, w2}
    Batch = 1
    MaxHashes = 2
    None = None
INVARIANTS NoStaleSession CollectorsRight
PROPERTIES ChangesLast CollectorsEnd
