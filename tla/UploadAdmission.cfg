SPECIFICATION FairSpec
CONSTANTS
    r1 = r1
    r2 = r2
    r3 = r3
    alice = alice
    bob = bob
    near = near
    far = far
    Requests = {r1, r2, r3}
    Users = {alice, bob}
    Addresses = {near, far}
    UserOf <- UserMap
    AddressOf <- AddressMap
    Global = 2
    PerUser = 2
    PerIP = 1
    MaxReads = 1
INVARIANTS TypeOK CountsExact 
PROPERTIES RefusalsHaveACause SlotsComeBack
CHECK_DEADLOCK FALSE
