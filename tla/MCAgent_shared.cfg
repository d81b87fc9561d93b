SPECIFICATION Spec
CONSTANTS
    Tracepoints <- SharedTracepoints
    EgressType <- SharedEgressType
    Buffers = {b1, b2, b3}
    Nil = Nil
    CPUs = {0, 1}
    RingCap = 1
    PerfCap = 2
    OutCap = 1
    MaxEvents <- SharedEvents
SYMMETRY BufferSymmetry
INVARIANTS TypeOK OrderPreserved ColumnsOfFirst
CHECK_DEADLOCK FALSE
