SPECIFICATION Spec
VIEW View
CONSTANTS
    NInodes = 4
    E = 2
    D = 9
    Name = {"a", "ab"}
    Hidden = {"h"}
    Longer <- Prefixed
    Room = {0, 3}
    Depth = 2
    MaxOpens = 1
INVARIANTS TypeOK TreeSound CacheCoherent HandlesLive
PROPERTIES NamesKept RenameMoves ResolvesRight
