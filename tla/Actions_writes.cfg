\* One restart of the server, two connections, two calls.
CONSTANTS
    c1 = c1  c2 = c2
    Calls = {c1}
    Operations <- MCOperations
    Discovered = FALSE
    Timeout = 1
    Slack = 2
    Lag = 1
    MaxRestarts = 1
    MaxLinks = 2
    MaxCalls = 2
SPECIFICATION FairSpec
INVARIANTS ReportIsTrue SettledWritesTheNamed
PROPERTIES Answered
CHECK_DEADLOCK FALSE
