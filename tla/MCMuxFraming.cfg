CONSTANTS
    Packets <- MCPackets
    PlainPackets <- MCPlainPackets
    Magic = 90
    MaxPacket = 8
    Tails <- MCTails
    MaxPackets = 4
SPECIFICATION Spec
INVARIANTS
    TypeOK
    LateStartLosesOnePacket
PROPERTIES
    IsFifoChannel
    LateStartRecovers
CHECK_DEADLOCK FALSE
