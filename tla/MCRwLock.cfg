\* Clients that call the lock again while they read or write, and a mutex that
\* may not exist: the lock may stop.
CONSTANTS
  Thread = {t1, t2, t3, t4}
  None = None
  MaxPermits = 3
  MaxNest = 2
  MutexResults <- MutexMayFail
SPECIFICATION FairSpec
CHECK_DEADLOCK FALSE
INVARIANTS Exclusion IInv DeadlockExplained
PROPERTIES ImplementsReadersWriter Admitted
