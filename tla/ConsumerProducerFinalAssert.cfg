CONSTANTS
    ChildProducerCount = 1
    ChildConsumerCount = 1
    MessageCount = 1
    Capacity = 2
    MaxFaults = 0
    Blank = Blank
    Torn = Torn
SPECIFICATION Spec
INVARIANT FinalAssertHolds
CHECK_DEADLOCK FALSE
