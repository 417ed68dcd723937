\* Three requests, two of them for one model, share one slot; one client may leave.
SPECIFICATION FairSpec
CONSTANTS
    A = A  B = B  r1 = r1  r2 = r2  r3 = r3  l1 = l1
    Models = {A, B}
    Requests = {r1, r2, r3}
    Loaders = {}
    Target <- TargetAAB
    ModelsMax = 1
    Cancellable = {r3}
    Stoppable = {}
    SleepEnabled = FALSE
    MaxUnloads = 0
    MaxFaults = 0
    None = None
INVARIANTS QueueAgrees
PROPERTIES BusySpared StopEnds RequestsEnd
CHECK_DEADLOCK FALSE
