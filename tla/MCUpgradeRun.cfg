\* Every release, up to three applies, every fault; every apply ends.
CONSTANTS
    ApiFaults = TRUE
    EdgeChoices = {"none", "partial"}
    HostChoices = {"full", "vlcm"}
    FinalizeChoices = {"unset", "off"}
    MaxApplies = 3
SPECIFICATION FairSpec
INVARIANTS TypeOK UpgradeOrder OkMeansUpgraded
PROPERTIES NoOverlappingStart PlanChangedOnlyAtRest StartedAsConfigured ApplyEnds
