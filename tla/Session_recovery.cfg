\* Discovery, a polled variant target, two faults and a renumbered NamespaceArray.
CONSTANTS
    t1 = t1  t2 = t2  t3 = t3  fast = fast  slow = slow
    Targets = {t1, t2, t3}
    Intervals = {fast, slow}
    IntervalOf <- MCIntervalOf
    Variant = {t3}
    Discovery = TRUE
    TokenStays = TRUE
    MaxFaults = 2
    MaxRenumber = 1
SPECIFICATION FairSpec
PROPERTIES Recovers
CHECK_DEADLOCK FALSE
