\* Two clients, a thread that logs, three discoveries.
CONSTANTS
    Clients <- MCClients
    Setups <- MCSetups
    Maps <- MCMaps
    HealthFields <- Health
    RawFields <- Raw
    LogFields <- Log
    Prefix = "OPC-UA"
    LogSource = "opcua_log"
    Threads = {"t1"}
    HealthEvent = "_server"
    RawEvent = "raw"
    LogEvent = "log"
    MaxDiscoveries = 3
SPECIFICATION Spec
INVARIANTS TypeOK OneSegment RowsFit NoRecordLost SegmentsContinue
CHECK_DEADLOCK FALSE
