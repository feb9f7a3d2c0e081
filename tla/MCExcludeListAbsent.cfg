\* Two resources, no failing call, a list that may not exist yet.
CONSTANTS
    Member = {m1, m2}
    Foreign = {f}
    MaxRetries = 1
    MaxOps = 3
    MaxFaults = 0
SPECIFICATION Spec
PROPERTY MemberCanBeAdded
