\* A field of 2 x 2, one ship of two cells each, lines of every kind.
CONSTANTS
    FieldSize = 2
    Weight = 2
    None = None
    MaxWire = 4
    MaxStrays = 1
    Fleets <- OneDomino
    Lines <- AnyLines
SPECIFICATION Spec
INVARIANTS
    OneTurn
    MessagesAreWhole
    EndIsCommon
    NothingUndefined
    WeightsCount
PROPERTIES
    ShotIsAnswered
    ImplementsShots
\* The game ends.
CHECK_DEADLOCK FALSE
