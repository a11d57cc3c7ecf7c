CONSTANTS
    None = None  Free = Free
    Ifindexes = {1}
    Gateways = {1, 2}
    Dsts = {1, 2}
    Macs = {1, 2}
    PrioBits = 4
    LinkVlan <- MCLinkVlan
    DstPrefix <- MCDstPrefix
    Cap <- MCCap
    Limit <- LimitConverge
    Allow <- AllowNone
SPECIFICATION Spec
INVARIANT KernelReadsBack
PROPERTY RoutesConverge
