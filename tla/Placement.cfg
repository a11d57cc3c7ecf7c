CONSTANTS
    PrioBits = 4
    MinPrio = 4
    Fixed <- MCFixed
    OnloadBase = 2
    MaxRules = 4
    DumpChains = {0, 1, 5, 6, 7}
    MaxChains = 5
    ChainBits = 5
    LineMax = 5
    FileLen = 5
SPECIFICATION Spec
INVARIANT TypeOK ChainTreeOrdered
PROPERTY PlacementFree ChainNoFree OnloadFileSound
