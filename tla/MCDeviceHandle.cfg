CONSTANTS
    EndpointNumbers = {0}
    Ids = {1}
    Header = Header
    Junk = Junk
    A = A
    B = B
    Cells <- MCCells
    DeviceHeader = Header
    Payloads <- MCPayloads
    Lengths = {0, 2}
    MaxCalls = 5
SPECIFICATION Spec
INVARIANTS
    TypeOK
    NoReplay
    SessionsInCaptureOrder
PROPERTIES
    SessionIdentityStable
CHECK_DEADLOCK FALSE
