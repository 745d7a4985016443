SPECIFICATION MCSpec
CONSTANTS
    Texts <- MCTexts
    Chains <- MCChains
    MinTrack = 1
    MaxTrack = 5
    Threads = {1, 2}
    Mutexes = {"high", "low", "other"}
    hierarchy_value <- MCLevels
    ULONG_MAX = 4
    producers = {1, 2}
    consumers = {3, 4}
    Items = {1, 2}
    buffer_size = 2
    Rounds = 2
    Preparers = {1, 2}
    Processors = {3, 4, 5}
    MaxChunks = 2
    Keys = {"q", "e", "delete", "escape", "[", "numbers"}
    MaxKeys = 4
    BufSize = 7
INVARIANTS
    LexersAgree
    OnlyTheLastCharacterIsLost
    ReadingsAgree
    TreeFollowsPrecedence
    SeekDistanceIsTravelled
    SelectionsAgree
    NoCircularWait
    NoLostWakeup
    KeysInOrder
PROPERTIES
    MainLoopEnds
    NothingIsPassed
    EveryRequestServed
    ImplementsBoundedStack
