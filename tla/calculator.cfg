CONSTANTS
    Modulus = 16
    None = None
    MaxKeys = 7
    ChoiceCost = 3
    Types = {"byte", "size", "int", "rational"}
    DigitKeys = {0, 2, 3}
SPECIFICATION Spec
INVARIANTS
    TypeOK
    ShownIsMeant
    WindowShowsBound
    FormulaIsPending
    PendingIsExact
PROPERTIES
    ImplementsDesk
\* A user may stop clicking.
CHECK_DEADLOCK FALSE
