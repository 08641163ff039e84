CONSTANTS
  t1 = t1
  t2 = t2
  t3 = t3
  Threads = {t1, t2, t3}
  Programs <- Waits
  NoThread = NoThread
SPECIFICATION Spec
INVARIANT NotifyPrecedesInterrupt
CHECK_DEADLOCK FALSE
