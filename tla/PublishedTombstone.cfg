SPECIFICATION Spec
CONSTANTS
    top = top
    a = a
    ab = ab
    abc = abc
    A = A
    h1 = h1
    h2 = h2
    server = server
    server2 = server2
    Paths = {a,ab}
    Parent <- ParentIn
    Above <- AboveIn
    Like <- LikeIn
    Top = top
    Keys = {k1,k2}
    MaxId = 2
    Handlers = {h1,h2}
    Procs = {server,tool}
    Home <- OneServer
    PageLimit = 2
    MaxMishaps = 0
    None = None
SYMMETRY Symmetry
INVARIANTS
    TombstonesRetryable
