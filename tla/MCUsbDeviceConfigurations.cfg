CONSTANTS
    Devices <- MCTwoConfigurations
SPECIFICATION Spec
INVARIANTS
    KnownConfigurationIsActive
