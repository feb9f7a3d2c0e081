\* A second apply that leaves finalize_upgrade_setting as it was.
CONSTANTS
    ApiFaults = FALSE
    EdgeChoices = {"none", "partial"}
    HostChoices = {"full", "vlcm"}
    FinalizeChoices = {"unset", "off"}
    MaxApplies = 2
SPECIFICATION Spec
PROPERTY FinalizedWhenEnabled
