\* A field of 5 x 5 for ships of three, two and one cells.
CONSTANTS
    FieldSize = 5
    ShipSizes <- Three_Two_One
    MaxAttempts = 2
    InitialWeight = 6
    MaxRetries = 1
SPECIFICATION PlacementSpec
INVARIANTS
    ShipsApart
    AvailableIsFree
    WeightIsShipCells
\* Placing ends with the last ship.
CHECK_DEADLOCK FALSE
