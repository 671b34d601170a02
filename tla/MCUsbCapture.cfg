CONSTANTS
    EndpointNumbers = {0, 1}
    i1 = i1
    i2 = i2
    Ids <- MCIds
    Header = Header
    A = A
    B = B
    X = X
    Cells <- MCCells
    DeviceHeader = Header
    Payloads <- MCPayloads
    Lengths = {0, 1, 2}
    MaxCalls = 7
    Devices = {A}
    Requests <- MCRequests
    Answers <- MCPayloads
    Stages = {"submit", "data", "complete"}
    LostEvents = {"complete"}
    LateStart = TRUE
    ErrorStatus = FALSE
SPECIFICATION CaptureSpec
SYMMETRY Symmetry
INVARIANTS
    InflightTracksBus
    UnmatchedIsOrphans
PROPERTIES
    DeliveryStep
CHECK_DEADLOCK FALSE
