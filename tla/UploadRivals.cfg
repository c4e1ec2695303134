SPECIFICATION Spec
CONSTANTS
    Ids = {u1,u2}
    Paths = {p1}
    Keys = {k1,k2}
    Data = {x,y}
    MaxLength = 1
    h1 = h1
    h2 = h2
    server = server
    server2 = server2
    Handlers = {h1,h2}
    Procs = {server}
    Home <- OneServer
    PageLimit = 2
    MaxCrashes = 0
    MaxFaults = 0
    None = None
    Hole = Hole
SYMMETRY Symmetry
INVARIANTS
    ActiveHasBytes
    NoStrayObject
PROPERTIES
    ImplementsContract
