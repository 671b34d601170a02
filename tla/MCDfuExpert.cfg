CONSTANTS
    X = X
    Y = Y
    Cells <- MCCells
    Blocks <- MCBlocks
    TransferSize = 1
    Faults = {"abort", "error", "reset", "truncate", "oversize", "strange"}
    MaxRequests = 7
SPECIFICATION Spec
INVARIANTS
    TypeOK
    EveryByteKept
    
    AnomaliesAreOffences
CHECK_DEADLOCK FALSE
