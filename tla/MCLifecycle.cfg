\* Every kind of resource, two values, two secrets, one retry.  To begin with the other
\* value, or the other secret, would be the same.
CONSTANTS
    Kinds <- AllKinds
    Value = {a, b}
    Secret = {s, t}
    FirstValues = {a}
    FirstSecrets = {s}
    None = None
    Absent = Absent
    MaxRetries = 1
    MaxFaults = 2
    MaxOthers = 1
    MaxEdits = 1
SPECIFICATION FairSpec
INVARIANTS TypeOK OkMeansApplied StateNeverAhead
PROPERTIES NothingUnseenOverwritten CreateTakesOnlyFree LossNeedsLostAnswer Converges
