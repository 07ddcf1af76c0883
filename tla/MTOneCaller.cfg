SPECIFICATION Spec
CONSTANTS
    t1 = t1
    t2 = t2
    t3 = t3
    Main = Main
    Threads = {t1, t2, t3}
    Name <- SharedName
    Callers = {c1}
    InitTasks <- TwoTasks
    Swallows = {t2}
    MaxTasks = 3
INVARIANTS
    TypeOK
    SharedScoped
PROPERTIES
    AllListedStarted
