CONSTANTS
    Reasons = {r1, r2}
    Wrong = {r1, r2}
    Compilers = {c1, c2}
    Runners = {t1}
    None = None
SPECIFICATION FairLogSpec
INVARIANT LogAttached
PROPERTY DeoptimizationsEnd
CHECK_DEADLOCK FALSE
