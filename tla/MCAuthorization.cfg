SPECIFICATION AdmissionSpec
CONSTANTS
    a = a
    b = b
    c = c
    NoInput = NoInput
    WeightMod = 16
    Addresses <- MCAddresses
    Requests <- MCRequests
    SignerLists <- MCSignerLists
    ActivePolicies <- MCPolicies
    Wallets <- MCWallets
INVARIANTS QuorumReached NobodyRefused MajoritySomewhere WalletCosignersSigned
CHECK_DEADLOCK FALSE
