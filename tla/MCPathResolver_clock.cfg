SPECIFICATION Spec
CONSTANTS
    Keys = {1, 2, 3, 4}
    SizeOf <- Sizes
    max_cache_size = 12
    W = 32
INVARIANTS TypeOK HandValid OneEntry
PROPERTIES EvictEnds
