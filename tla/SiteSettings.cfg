SPECIFICATION Spec
CONSTANTS
    Kinds = {logo, favicon}
    Keys = {k1, k2}
    Requests = {r1, r2, r3}
    Startup = Startup
    Browsers = {b1}
    RequestLimit = 1
    StartupLimit = 2
    MaxMishaps = 2
    None = None
SYMMETRY Symmetry
INVARIANTS SlotsServe NothingLost FreshAddress
