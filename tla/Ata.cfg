SPECIFICATION AtaSpec
CONSTANTS
    Sectors = 3
    Words = 2
    Garbage = garbage
    MaxTransfers = 3
CHECK_DEADLOCK FALSE
INVARIANTS
    SectorsWhole
    TransferDone
PROPERTIES
    TransfersEnd
