\* A resume that is itself cut, then a changed NamespaceArray.
CONSTANTS
    t1 = t1  t2 = t2  t3 = t3  fast = fast  slow = slow
    Targets = {t1, t2}
    Intervals = {fast, slow}
    IntervalOf <- MCIntervalOf
    Variant = {}
    Discovery = FALSE
    TokenStays = FALSE
    MaxFaults = 2
    MaxRenumber = 1
SPECIFICATION Spec
PROPERTIES ResumedIndexesCurrent
CHECK_DEADLOCK FALSE
