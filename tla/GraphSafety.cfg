CONSTANTS
    None = None  Free = Free
    Ifindexes = {1}
    Gateways = {1, 2}
    Dsts = {1}
    Macs = {1, 2}
    PrioBits = 4
    LinkVlan <- MCLinkVlan
    DstPrefix <- MCDstPrefix
    Cap <- MCCap
    Limit <- LimitSafety
    Allow <- AllowAll
INIT Init
NEXT Next
INVARIANT TypeOK RefCountsExact NoDangling ChainExclusive
\* An assertion that fails (AN) ends the process; nothing runs after it.
CHECK_DEADLOCK FALSE
