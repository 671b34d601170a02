CONSTANTS
    Bodies <- MCBodies
    RawWords <- MCRawWords
    TlsWords <- MCTlsWords
    Signatures <- MCSignatures
    MaxMessage = 6
    MaxSends = 3
SPECIFICATION Spec
INVARIANTS
    TypeOK
    EncodingIsServices
PROPERTIES
    IsFifoChannel
    UpgradeIsSeen
CHECK_DEADLOCK FALSE
