CONSTANTS
    Devices <- MCDevices
SPECIFICATION Spec
INVARIANTS
    TypeOK
    ConfigurationTracked
    EveryTransferRouted
    LateTransfersHarmless
