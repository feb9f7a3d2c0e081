\* Two or three nodes that join.
CONSTANTS
    Node = {n1, n2, n3}
    None = None
    Absent = Absent
    MaxRetries = 1
    MaxFaults = 2
    MaxOthers = 1
    MaxEdits = 1
SPECIFICATION FairSpec
INVARIANTS TypeOK OkMeansJoined FailsOnlyInTrouble
PROPERTIES OkLeavesNothing Converges
