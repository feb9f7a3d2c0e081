\* An update that fails, then another that does not change the same groups.
CONSTANTS
    ApiFaults = TRUE
    EdgeChoices = {"none", "partial"}
    HostChoices = {"full", "vlcm"}
    FinalizeChoices = {"unset", "off"}
    MaxApplies = 3
SPECIFICATION Spec
PROPERTY ConfiguredBeforeStart
