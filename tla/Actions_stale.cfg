\* A write while connect() has not yet resolved the handles anew.
CONSTANTS
    c1 = c1  c2 = c2
    Calls = {c1}
    Operations <- MCOperations
    Discovered = FALSE
    Timeout = 1
    Slack = 2
    Lag = 1
    MaxRestarts = 1
    MaxLinks = 2
    MaxCalls = 1
SPECIFICATION Spec
INVARIANTS WritesTheNamedNode
CHECK_DEADLOCK FALSE
