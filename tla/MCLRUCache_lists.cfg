SPECIFICATION Spec
CONSTANTS
    Blk = {b1, b2, b3}
    BadBlk = bad
    Data = {d1}
    NoData = nodata
    NoBlk = noblk
    Size = 3
    MaxFaults = 1
SYMMETRY Symmetry
INVARIANTS TypeOK ListsApart SlotsFilled
