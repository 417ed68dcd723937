\* Models that exclude each other; servers fail, crash and are slow to unload.
SPECIFICATION Spec
CONSTANTS
    r1 = r1  r2 = r2  r3 = r3
    m1 = m1  m2 = m2  m3 = m3
    x1 = x1  x2 = x2  x3 = x3
    Requests <- TwoRequests
    Models <- ThreeModels
    Runners <- ThreeRunners
    None = None
    MaxQueue = 2
    MaxRunners = 3
    RefMod = 4
    MaxTokens = 2
    MaxCtx = 1
    KeepAlives = {"pos"}
    Groups <- BothExclusive
    MLX <- LastTwo
    Pinnable <- LastOne
    UnloadKeeps = {}
    Operator = FALSE
    LoadMayFail = TRUE
    MayCrash = TRUE
    MayTimeOut = TRUE
    Training = FALSE
    CrossFifo = FALSE
    Reuse = FALSE
SYMMETRY Symmetry
CHECK_DEADLOCK FALSE
INVARIANT ResidencyLimits
INVARIANT NoStaleLoad
