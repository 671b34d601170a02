CONSTANTS
    MaxUnits = 3
    MaxNodes = 3
    DevicesRead <- MCDevices
    MaxReads = 2
SPECIFICATION ReadSpec
INVARIANTS
    StringsAreDevices
    ConfigurationsAreAnnounced
PROPERTIES
    KnownStaysKnown
CHECK_DEADLOCK FALSE
