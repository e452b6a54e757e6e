SPECIFICATION MCSpec
CONSTANTS
    Capacity = 2
    MaxSequence = 6
    NumOrders = 4
    Consumers = {c1, c2}
    Blank = Blank
    Torn = Torn
INVARIANTS TypeOK FastestNotLapped ProgressNotAhead
INVARIANTS ReadsEverythingUntilLapped ReadsAreNotOlder
PROPERTIES ProgressMonotone ProtocolGetsThrough
