SPECIFICATION Spec
CONSTANTS
    a = a
    b = b
    c = c
    WeightMod = 8
    Policies <- MCPolicies
    Signers = {a, b, c}
    MaxSignatures = 3
    ChainIDs = {14}
    InfoReaders = {r1}
    EpochMod = 4
    MaxUpdates = 3
INVARIANTS TypeOK ChainOfTrust KeysAreOfActive InfosTellOfStored
PROPERTIES StoredPoliciesStay ImplementsEpochs
CHECK_DEADLOCK FALSE
