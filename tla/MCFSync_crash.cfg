SPECIFICATION SpecSync
VIEW SyncView
SYMMETRY Symmetry
CONSTANTS
    File = {1, 2}
    D = 2
    I = 2
    Start = 4
    NData = 3
    MaxSize <- TwoAndOne
    Val = {v0, v1}
    NoVal = NoVal
INVARIANTS SyncedOnDisk
