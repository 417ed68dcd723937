\* Two requests of one conversation, a stop and a reader; three bytes through a ring of two.
SPECIFICATION FairSpec
CONSTANTS
    c = c  p1 = p1  p2 = p2  d = d  v1 = v1
    Requests = {p1, p2}
    Stops = {d}
    Readers = {v1}
    Convs = {c}
    Conv <- OneConv
    Cap = 2
    MaxBytes = 3
    MaxFrom = 0
    None = None
INVARIANTS TypeOK ReplayContiguous OneLivePerConv
PROPERTIES ReadersEnd ImplementsLog
CHECK_DEADLOCK FALSE

