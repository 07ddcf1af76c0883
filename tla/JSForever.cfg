SPECIFICATION Spec
CONSTANTS
    daily = daily
    twice = twice
    Jobs = {daily}
    Repeat <- OneForever
    Callers = {c1}
    Workers = {w1}
    Reused = {}
    MaxRestarts = 0
INVARIANT RepeatsForever
CHECK_DEADLOCK FALSE
