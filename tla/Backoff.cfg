SPECIFICATION Spec
CONSTANTS
    Base = 2000
    Limit = 120000
    Idle = 1800000
    Work = {0, 700, 61000, 900000, 1800001}
INVARIANTS TypeOK UndelayedApart
PROPERTIES DelayGrows
