SPECIFICATION Spec
CONSTANTS
    Printable <- MCPrintable
    Final <- MCFinal
    Blank = Blank
    ESC = ESC
    BEL = BEL
    BS = BS
    NL = NL
    CR = CR
    WaitPolls = 2
    FieldMax = 8
    Geometries <- MCGeometries
    FONT_WIDTH = 1
    FONT_HEIGHT = 2
    HasEngine = {TRUE, FALSE}
    MaxBytes = 5
INVARIANTS
    ScreenShowsText
    DmaConfined
PROPERTY WritesReturn
CHECK_DEADLOCK FALSE
