CONSTANTS
    o1 = o1  o2 = o2  d1 = d1  d2 = d2  a1 = a1  s1 = s1
    None = None  NoRule = NoRule
    AlienDescs <- MCAlienDescs
    StaticWant <- MCStaticWant
    PrioBits = 4
    MinPrio = 2
    MaxPrio = 3
    Owners <- MCOwner
    DynDescs <- MCDynDesc
    InitKernels <- MCLeftKernels
    Limit <- LimitRequest
SPECIFICATION Spec
INVARIANT OkInKernel
