CONSTANTS
    BootLen = 2
    BootPrints = 3
    Keys = {"q", "enter"}
    Modifiers = {"shift"}
    Rollover = 2
    QueueLen = 2
    Delay = 2
    Interval = 1
    MaxHold = 3
    Hz = 2
    TimeSet = 7
    MaxSecs = 3
    MinTicks = 1
    Typed = {"a", "NL", "BS"}
    FifoLen = 2
    UartLen = 2
    Boards <- MCBoards
    Width <- MCWidth
SPECIFICATION Spec
INVARIANTS NothingTypedIsLost ScreenShowsLine ResetsAsPromised MessagesAreKept
CHECK_DEADLOCK FALSE
PROPERTY NoStuckKey
