SPECIFICATION FairSpec
CONSTANTS
    Ingesters = {i1, i2}
    Workers = {w1}
    BatchSize = 2
    IdleLimit = 2
    ChCap = 1
    RowCap = 1
    MaxRecords = 3
    MaxLeaks = 1
INVARIANTS TypeOK Conservation TimerAlive
PROPERTIES Flushed
CHECK_DEADLOCK FALSE
