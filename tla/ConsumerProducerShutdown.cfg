CONSTANTS
    ChildProducerCount = 1
    ChildConsumerCount = 1
    MessageCount = 2
    Capacity = 2
    MaxFaults = 1
    Blank = Blank
    Torn = Torn
SPECIFICATION FairSpec
PROPERTIES ParentGoneReleasesChildren ShutdownCompletes
CHECK_DEADLOCK FALSE
