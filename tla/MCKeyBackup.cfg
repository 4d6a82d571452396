SPECIFICATION Spec
CONSTANTS
    Policies <- MCPolicies
    Width = 8
    NormalizationConstant = 4
    DataProvidersThreshold = 3
    Admins = 2
    AdminsThreshold = 2
    Modulus = 5
    PrivateKeys = {3}
INVARIANTS SharesPartitioned NobodyShortened SharesFollowWeight QuorumsRecover
    MinorityLearnsNothing
PROPERTY BackedUp
CHECK_DEADLOCK FALSE
