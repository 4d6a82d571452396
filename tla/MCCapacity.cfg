SPECIFICATION Spec
CONSTANTS
    tee = tee
    peer = peer
    third = third
    k1 = k1
    k2 = k2
    k3 = k3
    Keys = {k1, k2, k3}
    MaxWallets = 1
    MaxPermanentWalletsStatus = 2
    Handlers = {h1, h2}
    Self = tee
    Tees <- MCTees
    Instructions = {1, 2, 3, 4, 5, 6}
    DataFixed <- CapacityData
    PathLists <- NoLists
    OldBackups <- CapacityBackups
    MaxUint64 = 5
    EpochMod = 4
    InitialEpochs = {0}
    MaxUpdates = 0
INVARIANTS TypeOK RecordsEarned
PROPERTIES ImplementsLifecycle
SYMMETRY HandlerSymmetry
