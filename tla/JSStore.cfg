SPECIFICATION FairSpec
CONSTANTS
    daily = daily
    twice = twice
    Jobs = {daily, twice}
    Repeat <- BothKinds
    Callers = {c1, c2}
    Workers = {w1}
    Reused = {twice}
    MaxRestarts = 1
INVARIANTS
    TypeOK
    NotLost
PROPERTIES
    NoResurrection
    StoreSpec
    Executed
CHECK_DEADLOCK FALSE
