SPECIFICATION Spec
CONSTANTS
    File = {1, 2}
    D = 1
    I = 2
    Start = 4
    NData = 9
    MaxSize <- LargeAndSmall
INVARIANTS MetadataIntact
