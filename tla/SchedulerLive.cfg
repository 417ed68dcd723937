\* Two requests of two context sizes for two models that may not fit together.
SPECIFICATION FairSpec
CONSTANTS
    r1 = r1  r2 = r2  r3 = r3
    m1 = m1  m2 = m2  m3 = m3
    x1 = x1  x2 = x2  x3 = x3
    Requests <- TwoRequests
    Models <- TwoModels
    Runners <- TwoRunners
    None = None
    MaxQueue = 2
    MaxRunners = 2
    RefMod = 4
    MaxTokens = 2
    MaxCtx = 2
    KeepAlives = {"pos"}
    Groups = {}
    MLX = {}
    Pinnable = {}
    UnloadKeeps = {}
    Operator = FALSE
    LoadMayFail = FALSE
    MayCrash = FALSE
    MayTimeOut = FALSE
    Training = FALSE
    CrossFifo = FALSE
    Reuse = FALSE
CHECK_DEADLOCK FALSE
PROPERTY EveryRequestAnswered
