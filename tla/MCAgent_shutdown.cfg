SPECIFICATION FairSpec
CONSTANTS
    Tracepoints <- SingleTracepoint
    EgressType <- SharedEgressType
    Buffers = {b1, b2, b3}
    Nil = Nil
    CPUs = {0}
    RingCap = 2
    PerfCap = 1
    OutCap = 1
    MaxEvents <- ThreeEvents
PROPERTIES ShutdownCompletes
CHECK_DEADLOCK FALSE
