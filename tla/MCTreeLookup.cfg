SPECIFICATION Spec
CONSTANTS
    CellBase = 16
    MaxPathDepth = 4
    MaxRegions = 5
    Trees <- MCTrees
    Edits = {"none", "nop", "prop", "junk", "fin"}
INVARIANTS
    TreeIsTheSource
    SameNode
    SameAddress
    ReservedIsKnown
CHECK_DEADLOCK FALSE
