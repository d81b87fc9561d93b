SPECIFICATION StalledSpec
CONSTANTS
    Tracepoints <- PairTracepoints
    EgressType <- SharedEgressType
    Buffers = {b1, b2, b3, b4}
    Nil = Nil
    CPUs = {0}
    RingCap = 1
    PerfCap = 1
    OutCap = 1
    MaxEvents <- ThreeEvents
PROPERTIES NoBackpressure
INVARIANTS BufferExclusive Conservation
CHECK_DEADLOCK FALSE
