\* Every routine against every handler and preemption, and the races of a
\* OnceLock.  The spin locks can stop for good: see MCSyncHeap.cfg.
CONSTANTS
  shell = shell
  usb_input = usb_input
  Tasks <- MCTasks
  TaskRoutines <- MCTaskRoutines
  IrqRoutines <- MCIrqRoutines
  Threads = {t1, t2, t3}
  Values = {v1, v2}
  None = None
SPECIFICATION SyncSpec
INVARIANTS
  HandlerLocksNeverWaitedFor
  MasksNest
  DataGuarded
PROPERTIES
  ImplementsWriteOnce
  SetReturns
CHECK_DEADLOCK FALSE
