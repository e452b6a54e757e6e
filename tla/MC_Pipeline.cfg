SPECIFICATION FairSpec
CONSTANTS
    Capacity = 2
    NumOrders = 3
    c1 = c1
    c2 = c2
    Consumers = {c1, c2}
    Sampler = c1
    SampleEvery = 3
    ShardOf <- MCShardOf
    Blank = Blank
    Torn = Torn
INVARIANTS LeavesAtTheEnd StampedBeforeApplied
PROPERTIES DeliversUntilLapped NeverOlderThanCursor Termination
