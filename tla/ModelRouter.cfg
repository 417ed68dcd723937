\* Two requests and a load call for two models share one slot; a child may die, a
\* spawn fail, a client leave, a session be stopped, a model be unloaded by hand.
SPECIFICATION Spec
CONSTANTS
    A = A  B = B  r1 = r1  r2 = r2  r3 = r3  l1 = l1
    Models = {A, B}
    Requests = {r1, r2}
    Loaders = {l1}
    Target <- TargetAAB
    ModelsMax = 1
    Cancellable = {r1}
    Stoppable = {r2}
    SleepEnabled = TRUE
    MaxUnloads = 1
    MaxFaults = 1
    None = None
INVARIANTS TypeOK WithinModelsMax NoOrphanChild StopIsMeant StopUnderWay
CHECK_DEADLOCK FALSE
