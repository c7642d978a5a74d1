SPECIFICATION Spec
VIEW MapView
CONSTANTS
    File = {1, 2}
    D = 1
    I = 2
    Start = 4
    NData = 8
    MaxSize <- LargeAndSmall
INVARIANTS TypeOK NoSharing
PROPERTIES NoLeak PrefixKept MapsKept
