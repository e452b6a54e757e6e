SPECIFICATION MCSpec
CONSTANTS
    NumOrders = 8
    NumThreads = 3
    ShardOf <- MCShardOf
    Capacity = 1
    BATCH_SIZE = 2
    SampleEvery = 2
    QueueCapacity = 2
    Items = {a, b}
    MaxPushes = 6
    NoItem = NoItem
    Torn = Torn
INVARIANTS TypeOK NothingLostOrReordered NoSlotShared
PROPERTIES DeliversOwnOrders PipelineReturns IsBoundedFifo EveryPushIsPopped
