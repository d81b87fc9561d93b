SPECIFICATION Spec
CONSTANTS
    Configurations <- AllConfigurations
    Flows = {1, 2}
    Records = {1, 2}
    Workers = {1}
    ChCap = 1
    ItemCap = 1
    ClientCap = 1
INVARIANTS TypeOK Routed NeverPanics DocumentsMatch
PROPERTY Stored
CHECK_DEADLOCK FALSE
