\* Two subscribed items and a polled one, one to a Read, with requests slower than the periods.
CONSTANTS
    Items = {1, 2, 3}
    Subscribed = {1, 2}
    ReadChunk = 1
    PollInterval = 1
    Interval = 2
    StaleAfter = 2
    SweepSteps = 1
    Longest = 2
    MaxFailedReads = 1
    Horizon = 30
SPECIFICATION FairReadsSpec
INVARIANTS SampledOneWay RefreshedInTime
PROPERTIES KeepsReading
