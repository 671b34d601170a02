CONSTANTS
    EndpointNumbers = {0}
    i1 = i1
    i2 = i2
    Ids = {i1}
    Header = Header
    A = A
    B = B
    X = X
    Cells <- MCCells
    DeviceHeader = Header
    Payloads <- MCPayloads
    Lengths = {0, 1, 2}
    MaxCalls = 11
    Devices = {A, B}
    Requests <- MCRequests
    Answers <- MCPayloads
    Stages = {"complete"}
    LostEvents = {}
    LateStart = FALSE
    ErrorStatus = TRUE
SPECIFICATION CaptureSpec
INVARIANTS
    SessionNamesItsDevice
CHECK_DEADLOCK FALSE
