CONSTANTS
    m1 = m1
    m2 = m2
    c1 = c1
    main = main
    Methods = {m1, m2}
    BootMethods = {m1}
    Compilers = {c1}
    Requesters = {main}
    Main = main
    MaxTasks = 2
    Attempts = 2
    CommandLines <- ThreeCommandLines
    NoTask = NoTask
    NoThread = NoThread
    NoMethod = NoMethod
SPECIFICATION FairSpec
INVARIANTS
    TaskRecycledOnce
    OneTaskPerMethod
    QueuedWillBeCleared
PROPERTIES
    WaitersReturn
    BootstrapEnds
CHECK_DEADLOCK FALSE
