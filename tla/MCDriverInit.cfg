\* The drivers in the device tree's order, and the interrupts they set up.
CONSTANTS
  None = None
  RootCtl = "l1_intc"
  PeriphCtl = "armctrl"
  Sources <- MCSources
  LineOf <- MCLineOf
  Nodes <- MCNodes
  NodeOrders <- MCNodeOrders
  MaxIrqs = 256
  MaxRaises = 3
SPECIFICATION Spec
INVARIANTS
  EnabledLinesAreServed
  VirqsAreUnique
  LeftOutOnlyByFailure
PROPERTIES
  BootEnds
  LinesAreServed
CHECK_DEADLOCK FALSE
