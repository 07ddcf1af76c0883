SPECIFICATION FairSpec
CONSTANTS
    t1 = t1
    t2 = t2
    t3 = t3
    Main = Main
    Threads = {t1}
    Name <- OwnNames
    Callers = {c1, c2}
    InitTasks <- OneTask
    Swallows = {t1}
    MaxTasks = 2
PROPERTIES
    EmptyGroupEnds
    RunEnds
