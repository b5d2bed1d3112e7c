CONSTANTS
    None = None
    La = La
    Lb = Lb
    Le = Le
    Proc = {r1, r2}
    Item <- MCItem
    Parent <- MCParent
    Endless <- MCEndless
    Starts <- MCStarts
    Inputs <- MCInputs
    Gap = 8
    MinGap = 2
    MaxPosition = 48
    MaxRequests = 2
SPECIFICATION Spec
INVARIANTS
    InsertionsLand
    SiblingsInOrder
PROPERTY StrangersStay
CHECK_DEADLOCK FALSE
SYMMETRY MCSymmetry
