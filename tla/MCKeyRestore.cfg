SPECIFICATION Spec
CONSTANTS
    Backups = {"b1", "b2"}
    AdminShares <- MCAdminShares
    ProviderShares <- MCProviderShares
    AdminsThreshold = 2
    ProvidersThreshold = 3
    Metadata <- MCMetadata
    Messages <- MCMessages
    MaxMessages = 3
INVARIANTS QuorumsNeeded EndRecoversToo UnblamedAreUseful
PROPERTY JunkHarmless
CHECK_DEADLOCK FALSE
