\* Four faults against two servers, with shutdown at any moment.
SPECIFICATION FairSpec
CONSTANTS
    press = press
    oven = oven
    Clients = {press, oven}
    MaxFailures = 2
    MaxFaults = 4
INVARIANTS TypeOK ServesTheContacted EndsForAReason
PROPERTIES ShutsDown KeepsServing
CHECK_DEADLOCK FALSE
