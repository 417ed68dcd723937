\* Two requests wait for one model and its instance dies once.
SPECIFICATION Spec
CONSTANTS
    A = A  B = B  r1 = r1  r2 = r2  r3 = r3  l1 = l1
    Models = {A, B}
    Requests = {r1, r2, r3}
    Loaders = {}
    Target <- TargetAAB
    ModelsMax = 1
    Cancellable = {}
    Stoppable = {}
    SleepEnabled = FALSE
    MaxUnloads = 1
    MaxFaults = 0
    None = None
INVARIANT ClaimHasLoader
CHECK_DEADLOCK FALSE
