SPECIFICATION Spec
CONSTANTS
    keyGenerate = keyGenerate
    pay = pay
    custom = custom
    Workers = {main}
    Actions <- MCActions
    CtxBlind <- MCCtxBlind
    Forwarded <- MCForwarded
    Modes <- MCModes
    URLs = {u1, u2}
    NoURL = NoURL
    QueueFetchRetries = 1
    MaxRuns = 2
INVARIANTS TypeOK AnsweredOnce SignedFailuresFlagged Addressed
PROPERTY WorkerReturns
