SPECIFICATION FairSpec
CONSTANTS
    Tracepoints <- DualTracepoints
    EgressType <- DualEgressType
    Buffers = {b1, b2, b3, b4}
    Nil = Nil
    CPUs = {0}
    RingCap = 1
    PerfCap = 1
    OutCap = 1
    MaxEvents <- OneEach
PROPERTIES Delivered ShutdownCompletes
CHECK_DEADLOCK FALSE
