CONSTANTS
    N = 2
    t1 = t1
    t2 = t2
    Threads = {t1}
    NmethodSweepFraction = 2
SPECIFICATION FairSpec
INVARIANTS
    TypeOK
    NoActivationInDeadCode
    NoCallIntoFlushedCode
    LockedNotFlushed
    CursorValid
PROPERTIES
    DeadCodeReclaimed
    CompilationResumes
