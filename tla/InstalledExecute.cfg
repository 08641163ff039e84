CONSTANTS
    N = 2
    t1 = t1
    t2 = t2
    w1 = w1
    w2 = w2
    Threads = {t1, t2}
    CompilerThreads = {t1, t2}
    Wrappers = {w1, w2}
    DefaultWrappers = {w2}
SPECIFICATION Spec
SYMMETRY Symmetry
INVARIANTS
    NoCallIntoFlushedCode
CHECK_DEADLOCK FALSE
