SPECIFICATION SpecSync
VIEW SyncView
SYMMETRY Symmetry
CONSTANTS
    File = {1, 2}
    D = 1
    I = 2
    Start = 4
    NData = 4
    MaxSize <- TwoAndOne
    Val = {v0, v1}
    NoVal = NoVal
INVARIANTS SyncedOnDisk
