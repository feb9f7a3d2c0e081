\* The only fault is the restart of the manager after its own upgrade.
CONSTANTS
    ApiFaults = FALSE
    EdgeChoices = {"none", "partial"}
    HostChoices = {"full", "vlcm"}
    FinalizeChoices = {"unset", "off"}
    MaxApplies = 1
SPECIFICATION Spec
INVARIANT RestartIsTolerated
