SPECIFICATION Spec
CONSTANTS
    i1 = i1
    i2 = i2
    r1 = r1
    r2 = r2
    alice = alice
    bob = bob
    s = s
    None = None
    Initiators = {i1, i2}
    Responders = {r1, r2}
    DeviceOf <- MCDeviceOf
    Expects <- MCExpects
    Trusts <- MCTrusts
    SessionOf <- MCSessionOf
    RootOf <- MCRootOf
    Pieces = {1, 2}
    SizeOf <- MCSizeOf
    MaxFrames = 2
    MaxBytes = 3
    MaxSkew = 0
    MaxClock = 1
INVARIANTS
    TypeOK
    NonceOnce
    WhatIsSealedOpens
    PieceIsThePeers
PROPERTIES
    ImplementsLine
SYMMETRY ChannelSymmetry
CHECK_DEADLOCK FALSE
