CONSTANTS
    Main = main
    Writers = {w1}
    Capacity = 13
    LengthSize = 2
    Zero = Zero
    HeadSize = 1
    MessageSizes = {2, 3}
    MessageCount = 5
    MaxFaults = 1
SPECIFICATION FairSpec
INVARIANTS IInv ByteAccount SlotsApart PrintedInOrder OwnTextOnly AllPrintedAfterWait
PROPERTIES RefusedOnlyWhenNoByteLeft LoggerEnds
CHECK_DEADLOCK FALSE
