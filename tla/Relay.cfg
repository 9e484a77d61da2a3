SPECIFICATION Spec
CONSTANTS
    p1 = p1
    p2 = p2
    p3 = p3
    c1 = c1
    c2 = c2
    n1 = n1
    n2 = n2
    sender = sender
    kid = kid
    relay = relay
    k1 = k1
    obj1 = obj1
    obj2 = obj2
    text1 = text1
    text2 = text2
    None = None
    Parents = {p1, p2, p3}
    Children = {c1, c2}
    Branches = {n1, n2}
    Keys = {k1}
    Bodies = {text1, text2}
    Device = relay
    DeviceOf <- MCDeviceOf
    BranchOf <- MCBranchOf
    Open <- MCOpen
    ObjectOf <- MCObjectOf
    SizeOf <- MCSizeOf
    MaxStored = 2
    MaxStorage = 2
    MaxBytes = 4
    MaxRoutes = 2
    MaxActive = 3
    MaxClock = 1
    Buffer = 1
    MaxSpawnFailures = 1
INVARIANTS
    TypeOK
    SessionsCounted
    OneBodyPerPiece
    ChildFlagAccounted
    RevokedChildGetsNothing
SYMMETRY RelaySymmetry
