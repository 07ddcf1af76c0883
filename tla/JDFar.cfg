SPECIFICATION Spec
CONSTANTS
    Horizon = 23
    Midnight <- EvenDays
    Clocks <- FirstTwo
    Dates <- Sampled
    Minutes <- OneMonth
INVARIANT MinutesKept
CHECK_DEADLOCK FALSE
