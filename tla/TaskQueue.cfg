\* One slot for three of five requests - completions, a slot operation, a metrics scrape - or for a realtime
\* session and one of them, with sleeping enabled.
SPECIFICATION Spec
CONSTANTS
    g1 = g1  g2 = g2  g3 = g3  o1 = o1  m1 = m1
    Gens = {g1, g2, g3}
    Realtime = {g3}
    SlotOps = {o1}
    Scrapers = {m1}
    Slots = {0}
    AnySlot = AnySlot
    Pin <- PinNone
    Tokens = 1
    Prompt = 0
    Attempt = 1
    Starve = 1
    SleepEnabled = TRUE
    MaxRequests = 3
    Nobody = Nobody
INVARIANTS TypeOK SleepsIdle TaskAccounted NoOrphanResult
SYMMETRY Symmetry
PROPERTIES OrderKept SlotsStillWhileDecoding
CHECK_DEADLOCK FALSE
