CONSTANTS
    ChildProducerCount = 2
    ChildConsumerCount = 1
    MessageCount = 3
    Capacity = 2
    MaxFaults = 0
    Blank = Blank
    Torn = Torn
SPECIFICATION Spec
INVARIANTS IInv NoLateConstruction ConsumedAtMostProduced BacklogBound
PROPERTY ImplementsAccount
CHECK_DEADLOCK FALSE
