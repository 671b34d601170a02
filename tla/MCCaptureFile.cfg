CONSTANTS
    MaxBlocks = 4
    MaxRecords = 2
    Layouts <- MCLayouts
    Values <- MCValues
    Supported = {220, 249}
    BadHeaders = {99}
    MaxWarnings = 2
SPECIFICATION FileSpec
INVARIANTS
    FileTypeOK
    ReportedAsWritten
    DamageIsLocal
    DevicesInOrder
CHECK_DEADLOCK FALSE
