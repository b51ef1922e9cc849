\* What the comment on recover_wedged_interrupt_channel says of its halt.
CONSTANTS
  Pollers = {usb_input, kernel_shell}
  UsesSplit = TRUE
  MaxErrorRetries = 2
  MaxSplitRetries = 2
SPECIFICATION TransferSpec
INVARIANTS
  ArmingNeverFreezes
CHECK_DEADLOCK FALSE
