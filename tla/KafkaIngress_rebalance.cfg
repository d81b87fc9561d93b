SPECIFICATION FairSpec
CONSTANTS
    Workers = {w1, w2}
    HandlerCap = 1
    ChCap = 1
    MaxMessages = 2
    MaxCrashes = 0
    MaxRebalances = 1
PROPERTIES KeepsConsuming
CHECK_DEADLOCK FALSE
