\* Three faults against connect, setup, recreate and resume; a failed first connect stops.
CONSTANTS
    t1 = t1  t2 = t2  t3 = t3  fast = fast  slow = slow
    Targets = {t1, t2}
    Intervals = {fast, slow}
    IntervalOf <- MCIntervalOf
    Variant = {}
    Discovery = FALSE
    TokenStays = FALSE
    MaxFaults = 3
    MaxRenumber = 0
SPECIFICATION Spec
SYMMETRY Exchanges
INVARIANTS TypeOK Covered BeliefTrue NothingForgotten SlotsAccounted
PROPERTIES AbandonedForGood
CHECK_DEADLOCK FALSE
