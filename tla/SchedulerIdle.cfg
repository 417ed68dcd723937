\* One client that sends requests for ever, with and without keep_alive 0, and a runtime that may be ahead.
SPECIFICATION Spec
CONSTANTS
    r1 = r1  r2 = r2  r3 = r3
    m1 = m1  m2 = m2  m3 = m3
    x1 = x1  x2 = x2  x3 = x3
    Requests <- OneRequest
    Models <- OneModel
    Runners <- TwoRunners
    None = None
    MaxQueue = 2
    MaxRunners = 1
    RefMod = 4
    MaxTokens = 2
    MaxCtx = 1
    KeepAlives = {"zero", "pos"}
    Groups = {}
    MLX = {}
    Pinnable = {}
    UnloadKeeps = {}
    Operator = TRUE
    LoadMayFail = FALSE
    MayCrash = FALSE
    MayTimeOut = FALSE
    Training = FALSE
    CrossFifo = TRUE
    Reuse = TRUE
SYMMETRY Symmetry
INVARIANT IdleExpires
