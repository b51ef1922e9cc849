\* Every bus, and then the transfer of a low-speed keyboard behind the hub of
\* the board.
CONSTANTS
    MaxRetries = 2
    BufferLen = 10
    Faults = 3
    Trees <- MCTrees
    Pollers = {usb_input, kernel_shell}
    UsesSplit = TRUE
    MaxErrorRetries = 8
    MaxSplitRetries = 4
SPECIFICATION UsbSpec
INVARIANTS
    AddressesUnique KeyboardIsFound
    TypeOK RecoveryIsExclusive NoDmaWithoutBuffer
PROPERTIES
    SearchEnds
    ReportNotDropped TransferNeverStuck
CHECK_DEADLOCK FALSE
