SPECIFICATION Spec
CONSTANTS
    t1 = t1
    t2 = t2
    t3 = t3
    Main = Main
    Threads = {t1, t2}
    Name <- OwnNames
    Callers = {c1}
    InitTasks <- TwoTasks
    Swallows = {}
    MaxTasks = 2
PROPERTIES
    FinishAfterAll
