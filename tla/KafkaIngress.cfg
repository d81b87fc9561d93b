SPECIFICATION FairSpec
CONSTANTS
    Workers = {w1}
    HandlerCap = 1
    ChCap = 1
    MaxMessages = 4
    MaxCrashes = 1
    MaxRebalances = 1
INVARIANTS TypeOK NothingSkipped LossBounded OncePerRun
PROPERTIES Consumed
CHECK_DEADLOCK FALSE
