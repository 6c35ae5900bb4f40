CONSTANTS
    c1 = c1
    c2 = c2
    Collectors = {c1, c2}
    Receivers = {c1, c2}
    CounterRange = 6
    BacklogLimit = 2
    MaxDropped = 8
    USHRT_MAX = 2
    INT_MAX = 1
    UINT_MAX = 1
    Requests <- MCRequests
    Trees <- MCTrees
    PINBA_VLEN = 2
    QueueLimit = 2
    StagingLimit = 1
    request_pool_size = 2
    SocketLimit = 2
    MaxSent = 2
SPECIFICATION MCSpec
INVARIANTS TypeOK NoUseAfterFree ActiveHasWorkers QueueLiveExact BalancesHold KernelDropsExact ValidationExact
PROPERTIES TransitionsEnd QueuedCompletes SocketDrains
