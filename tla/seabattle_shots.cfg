\* A field of 3 x 3 with every fleet of one or two ships and four cells.
CONSTANTS
    FieldSize = 3
    Fleets <- AllFleets
    Weight = 4
    MaxColumn = 2
SPECIFICATION Spec
INVARIANTS
    ViewSound
    ShoreRevealed
PROPERTIES
    OnlyShoresGivenAway
    KillMeansSunk
\* The shots end with the last ship.
CHECK_DEADLOCK FALSE
