CONSTANTS
    a = a
    b = b
    c = c
    d = d
    Blank = Blank
    Torn = Torn
    Capacity = 3
    MaxHeld = 3
    Procs <- MCProcs
    Values = {v1, v2}
    Usages <- MCUsages
SPECIFICATION FairSpec
INVARIANTS IInv SoleOccupancy CountedOccupancy
PROPERTIES ImplementsFifo PushLockFree
