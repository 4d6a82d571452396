SPECIFICATION Spec
CONSTANTS
    tee = tee
    peer = peer
    third = third
    k1 = k1
    k2 = k2
    k3 = k3
    Keys = {k1}
    MaxWallets = 1
    MaxPermanentWalletsStatus = 1
    Handlers = {h1, h2}
    Self = tee
    Tees <- MCTees
    Instructions = {1, 2}
    DataFixed <- WindowData
    PathLists <- DirectLists
    OldBackups <- LifecycleBackups
    MaxUint64 = 5
    EpochMod = 4
    InitialEpochs = {0}
    MaxUpdates = 2
INVARIANTS RestoredWithinWindow
SYMMETRY HandlerSymmetry
