SPECIFICATION Spec
CONSTANTS
    Horizon = 23
    Midnight <- SummerDays
    Clocks <- FirstWeek
    Dates <- Sampled
    Minutes <- InRange
INVARIANTS
    TypeOK
    NotBeforeDate
    NotAfterDate
    MinutesKept
CHECK_DEADLOCK FALSE
