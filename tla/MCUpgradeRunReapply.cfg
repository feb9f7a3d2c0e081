\* A second apply after a complete upgrade.
CONSTANTS
    ApiFaults = FALSE
    EdgeChoices = {"none", "partial"}
    HostChoices = {"full", "vlcm"}
    FinalizeChoices = {"unset", "off"}
    MaxApplies = 2
SPECIFICATION Spec
PROPERTY UpgradedIsSkipped
