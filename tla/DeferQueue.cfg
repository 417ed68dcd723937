\* Retries, cancellations and a depth limit that is reached.
CONSTANTS
    j1 = j1  j2 = j2  j3 = j3
    Jobs = {j1, j2, j3}
    MaxDepth = 2
    RetryMax = 2
    NoJob = NoJob
SPECIFICATION FairSpec
INVARIANTS TypeOK OrderListsWaiting AcceptedOnce PromotedIffAccepted
PROPERTIES EventuallySettled
CHECK_DEADLOCK FALSE
