SPECIFICATION FairSpec
CONSTANTS
    Workers = {w1, w2}
    Buffers = {b1, b2, b3}
    Nil = Nil
    InCap = 1
    BCap = 1
    ProdCap = 1
    MaxRecords = 4
INVARIANTS TypeOK Conservation OneDiscardedPerError DeliveryOrder
PROPERTIES NeverStuck
CHECK_DEADLOCK FALSE
