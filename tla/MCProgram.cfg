SPECIFICATION Spec
CONSTANTS
    Requests <- AllRequests
    CPUs = {p1, p2}
    Socks = {s1, s2}
    HashSize = 1
    MaxEvents <- Events
SYMMETRY Symmetry
INVARIANTS TypeOK ProgramLoads AtMostOneIn ValuesRead CellsRight
CHECK_DEADLOCK FALSE
