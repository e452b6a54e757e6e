SPECIFICATION Spec
CONSTANTS
    Capacity = 2
    MaxSequence = 6
    Consumers = {c1, c2}
    Blank = Blank
    Torn = Torn
INVARIANTS SlowestNotLapped
