SPECIFICATION Spec
CONSTANTS
    Symbols = {0, 1, 2, 3}
    Hash <- MCHash
    MAX_SYMBOLS_PER_SHARD = 2
    SYMBOL_MAP_CAPACITY = 3
    EMPTY_VAL = EMPTY_VAL
    Refs = {1, 2, 3}
    Prices = {1}
    MaxShares = 2
    MAX_LEVELS = 2
    Word = 8
    None = None
    MaxMessages = 4
INVARIANTS OneBookPerSymbol ShardingKeepsEveryOrder
PROPERTIES IsSymbolBooks
CHECK_DEADLOCK FALSE
