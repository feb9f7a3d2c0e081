\* Three resources and other users, two values, one retry and one fault.
CONSTANTS
    Value = {"a", "b"}
    None = "none"
    MaxRetries = 1
    MaxOps = 4
    MaxFaults = 1
SPECIFICATION Spec
INVARIANT TypeOK
PROPERTIES PartsAreRegisters GivesUpOnlyUnderContention
