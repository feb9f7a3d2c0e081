\* Two components that warn, one of which fails.
CONSTANTS
    Component = {EDGE, HOST}
    Warnings = {EDGE, HOST}
    Failures = {EDGE}
    Absent = Absent
    MaxTroubles = 2
SPECIFICATION FairSpec
INVARIANTS TypeOK ReadyMeansChecked AcknowledgementsSurvive OnlyWhatWasAsked
PROPERTY GetsReady
