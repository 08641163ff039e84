CONSTANTS
  t1 = t1
  t2 = t2
  t3 = t3
  Threads = {t1, t2, t3}
  Programs <- Usual
  NoThread = NoThread
SPECIFICATION FairSpec
INVARIANTS OnOneList NotStranded InterruptWakes
PROPERTIES ImplementsJavaMonitor QueuedAcquires
CHECK_DEADLOCK FALSE
