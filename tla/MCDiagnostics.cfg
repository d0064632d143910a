\* The processes of the manager and of the vehicle may end.
SPECIFICATION MCSpec
CHECK_DEADLOCK FALSE
CONSTANTS
    Routers <- MCRouters
    Managed = {"TransferExit"}
    Levels = {1}
    MaxSeed = 2
    MaxByte = 2
    PoolSize = 2
    ResetTypes = {"HardReset"}
    MetaInfos <- MCMetaInfos
    Samples <- SomeSamples
    cCacheLifetime = 2
    MaxTransit = 1
    MaxBridges = 2
    MaxAsked = 1
    MaxStale = 1
INVARIANTS FailuresAreLimited AnsweredOnce
PROPERTIES BlocksInOrder AnswerIsRecent
