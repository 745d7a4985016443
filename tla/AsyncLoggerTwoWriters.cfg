CONSTANTS
    Main = main
    Writers = {w1, w2}
    Capacity = 8
    LengthSize = 2
    Zero = Zero
    HeadSize = 1
    MessageSizes = {2}
    MessageCount = 2
    MaxFaults = 0
SPECIFICATION Spec
INVARIANT MessageHoldsFormat
CHECK_DEADLOCK FALSE
