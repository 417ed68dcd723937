\* Two requests on two slots, with long prompts, the prefill cadence and sleeping enabled.
SPECIFICATION FairSpec
CONSTANTS
    g1 = g1  g2 = g2  g3 = g3  o1 = o1  m1 = m1
    Gens = {g1, g2}
    Realtime = {}
    SlotOps = {}
    Scrapers = {}
    Slots = {0, 1}
    AnySlot = AnySlot
    Pin <- PinNone
    Tokens = 2
    Prompt = 1
    Attempt = 2
    Starve = 3
    SleepEnabled = TRUE
    MaxRequests = 2
    Nobody = Nobody
PROPERTIES YieldEnds SleepersWake Answered
CHECK_DEADLOCK FALSE
