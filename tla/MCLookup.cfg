\* Every way to look up, three objects, pages of one.
CONSTANTS
    Kinds <- AllLookups
    Objects = 3
    PageSize = 1
SPECIFICATION FairSpec
INVARIANTS TypeOK NothingStayedMissed NoFalseMultiple
PROPERTY Ends
