CONSTANTS
    N = 2
    t1 = t1
    t2 = t2
    Threads = {t1, t2}
    CommandLines <- AllFlags
SPECIFICATION Spec
SYMMETRY Symmetry
INVARIANTS
    TypeOK
    CodeIsEntered
    CodeNotFlushed
    EntryNotFlushed
    PinnedSiteNotFlushed
