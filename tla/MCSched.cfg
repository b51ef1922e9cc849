\* The scheduler on small instances.
CONSTANTS
  MaxTid = 7
  Devices = {uart}
  MaxRaises = 2
SPECIFICATION Spec
INVARIANTS
  OneHome
  MaskDiscipline
  FlagStaysInIrq
PROPERTIES
  ImplementsRunQueue
  EveryReadyTaskRuns
  HaltedCoreWakes
