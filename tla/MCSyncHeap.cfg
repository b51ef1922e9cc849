\* The allocator locks are taken with interrupts enabled by tasks, and
\* masked by others and by handlers.
CONSTANTS
  shell = shell
  usb_input = usb_input
  Tasks <- MCTasks
  TaskRoutines <- MCTaskRoutines
  IrqRoutines <- MCIrqRoutines
  Threads = {t1, t2, t3}
  Values = {v1, v2}
  None = None
SPECIFICATION SyncSpec
INVARIANT
  NobodySpinsMasked
CHECK_DEADLOCK FALSE
