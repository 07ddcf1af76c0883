SPECIFICATION FairSpec
CONSTANTS
    Items <- TwoGroups
    Limit = 1
    MaxAsks = 4
INVARIANTS
    TypeOK
    BlockInv
    ListenersMatch
    SearchingInv
    Fresh
PROPERTIES
    Freed
    SearchEnds
CHECK_DEADLOCK FALSE
