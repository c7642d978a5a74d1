SPECIFICATION Spec
VIEW View
CONSTANTS
    NInodes = 4
    E = 2
    D = 2
    Name = {"a", "ab"}
    Hidden = {"h"}
    Longer <- Prefixed
    Room = {3}
    Depth = 2
    MaxOpens = 1
PROPERTIES RenameMoves
