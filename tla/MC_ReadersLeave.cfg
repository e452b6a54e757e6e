SPECIFICATION Spec
CONSTANTS
    Capacity = 2
    NumOrders = 2
    Consumers = {c1, c2}
    Blank = Blank
    Torn = Torn
INVARIANTS EveryoneReadsEverything
