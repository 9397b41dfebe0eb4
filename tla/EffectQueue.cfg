SPECIFICATION Spec
CONSTANTS
    Orders = {o1}
    Kinds <- MCKinds
    Limit <- MCLimit
    Watched <- MCWatched
    MaxEffects = 4
    MaxVersion = 2
    MaxDelay = 2
    BatchLimit = 2
    StuckAttempts = 2
    MaxCrashes = 1
INVARIANT TypeOK
INVARIANT NoChangeUnsent
INVARIANT NobodyFailsUnheard
PROPERTY KeepsPromise
