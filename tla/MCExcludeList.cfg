\* Three resources, one member of another user, one retry and two faults.
CONSTANTS
    Member = {m1, m2, m3}
    Foreign = {f}
    MaxRetries = 1
    MaxOps = 5
    MaxFaults = 2
SPECIFICATION Spec
INVARIANTS TypeOK ListedOnce StateMatchesList
PROPERTY MembersAreRegisters
