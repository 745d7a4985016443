SPECIFICATION Spec
CONSTANTS
    Runs = {r1, r2, r3}
    MaxFaults = 2
INVARIANTS IInv PersonKept EverythingReleased
PROPERTY TableNeverLost
CHECK_DEADLOCK FALSE
