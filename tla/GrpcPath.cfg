SPECIFICATION FairSpec
CONSTANTS
    InCap = 2
    SrvCap = 1
    MaxRecords = 5
    MaxFailures = 3
INVARIANTS TypeOK Conservation StreamOrder
PROPERTIES DeliversAtMostOnce Drained
CHECK_DEADLOCK FALSE
