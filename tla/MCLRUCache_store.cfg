SPECIFICATION Spec
CONSTANTS
    Blk = {b1, b2, b3}
    BadBlk = bad
    Data = {d1, d2}
    NoData = nodata
    NoBlk = noblk
    Size = 2
    MaxFaults = 0
INVARIANTS IndexSound CleanIsOnDisk SyncAllProgress
PROPERTIES StoreSpec
