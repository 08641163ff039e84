CONSTANTS
    t1 = t1
    t2 = t2
    JavaThreads = {t1, t2}
    VMThread = VMThread
    NoThread = NoThread
    MaxBuffer = 2
    Setups <- RequestsOrCleanup
SPECIFICATION FairSpec
INVARIANTS TypeOK SafepointExclusive CallBackOwed
PROPERTIES SafepointReached ExecuteReturns
