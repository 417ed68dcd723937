\* Training pauses loads; the broker wipes every runner, or all but the first model's.
SPECIFICATION Spec
CONSTANTS
    r1 = r1  r2 = r2  r3 = r3
    m1 = m1  m2 = m2  m3 = m3
    x1 = x1  x2 = x2  x3 = x3
    Requests <- TwoRequests
    Models <- TwoModels
    Runners <- TwoRunners
    None = None
    MaxQueue = 2
    MaxRunners = 1
    RefMod = 4
    MaxTokens = 2
    MaxCtx = 1
    KeepAlives = {"unset"}
    Groups = {}
    MLX = {}
    Pinnable = {}
    UnloadKeeps <- OneModel
    Operator = FALSE
    LoadMayFail = FALSE
    MayCrash = FALSE
    MayTimeOut = FALSE
    Training = TRUE
    CrossFifo = FALSE
    Reuse = FALSE
SYMMETRY Symmetry
CHECK_DEADLOCK FALSE
INVARIANT TypeOK
INVARIANT LoadedAttached
INVARIANT NoServerLeak
INVARIANT NoLostWakeup
 
