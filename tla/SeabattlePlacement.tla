------------------------- MODULE SeabattlePlacement -------------------------
(* GetRandomField (seabattle.h): the ships are placed one after the other,   *)
(* each at a random available cell in a random direction; a placed ship      *)
(* makes its cells and their neighbours unavailable.  An attempt that fails  *)
(* too often abandons the field and a new one is begun.                      *)
EXTENDS SeabattleField, Sequences

CONSTANTS ShipSizes,     \* ship_sizes, a sequence
          MaxAttempts,   \* max_attempts
          InitialWeight, \* the initial value of weight_
          MaxRetries     \* bound: how often a field is abandoned

ASSUME PlacementAssumption ==
    /\ ShipSizes \in Seq(1..FieldSize)
    /\ MaxAttempts \in Nat \ {0}
    /\ InitialWeight \in Nat
    /\ MaxRetries \in Nat

VARIABLES field,      \* result
          available,  \* availableElements
          next,       \* the position in ship_sizes of the ship to place
          attempt,
          ships,      \* history: the ships placed, as sets of cells
          retries     \* how often a field was abandoned

placement == <<field, available, next, attempt, ships, retries>>

AllCells == Coords \X Coords

Fresh == Filled("EMPTY", InitialWeight)

PlacementInit ==
    /\ field = Fresh
    /\ available = AllCells
    /\ next = 1
    /\ attempt = 0
    /\ ships = {}
    /\ retries = 0

Placing == next <= Len(ShipSizes)

(* check_ship_available: available cells are in the field.                   *)
Fits_StartOnly(c, dir, length) == c \in available /\ ShipCells(c[1], c[2], dir, length) \subseteq AllCells

Fits(c, dir, length) == ShipCells(c[1], c[2], dir, length) \subseteq available

UsedBy_NoDiagonal(ship) == UNION {{<<c[1] + d[1], c[2] + d[2]>> : d \in Directions} \cup {c} : c \in ship}

(* mark_cell_as_used, for every cell of the ship.                            *)
UsedBy(ship) == UNION {Near(c) : c \in ship}

MarkShip_CountsWeight(f, ship) ==
    [cell |-> [i \in Indices |-> IF i \in {Index(c[1], c[2]) : c \in ship} THEN "SHIP" ELSE f.cell[i]],
     weight |-> f.weight + Cardinality(ship)]

MarkShip(f, ship) ==
    [f EXCEPT !.cell =
        [i \in Indices |-> IF i \in {Index(c[1], c[2]) : c \in ship} THEN "SHIP" ELSE @[i]]]

CanTry == Placing /\ attempt < MaxAttempts /\ available # {}

Place(c, dir) ==
    /\ CanTry
    /\ c \in available
    /\ Fits(c, dir, ShipSizes[next])
    /\ LET ship == ShipCells(c[1], c[2], dir, ShipSizes[next]) IN
           /\ field' = MarkShip(field, ship)
           /\ available' = available \ UsedBy(ship)
           /\ ships' = ships \cup {ship}
    /\ next' = next + 1
    /\ attempt' = 0
    /\ UNCHANGED retries

Fail(c, dir) ==
    /\ CanTry
    /\ c \in available
    /\ ~Fits(c, dir, ShipSizes[next])
    /\ attempt' = attempt + 1
    /\ UNCHANGED <<field, available, next, ships, retries>>

(* TryGetRandomField returns nothing and is called again.                    *)
Retry ==
    /\ Placing
    /\ attempt >= MaxAttempts \/ available = {}
    /\ retries < MaxRetries
    /\ field' = Fresh
    /\ available' = AllCells
    /\ next' = 1
    /\ attempt' = 0
    /\ ships' = {}
    /\ retries' = retries + 1

PlacementNext ==
    \/ \E c \in AllCells, dir \in 0..3 : Place(c, dir) \/ Fail(c, dir)
    \/ Retry

PlacementSpec == PlacementInit /\ [][PlacementNext]_placement

-----------------------------------------------------------------------------
(* Properties *)

(* The type invariant: in particular a ship lies in the field as a whole.    *)
PlacementTypeOK ==
    /\ field \in Fields
    /\ available \in SUBSET AllCells
    /\ next \in 1..(Len(ShipSizes) + 1)
    /\ attempt \in 0..MaxAttempts
    /\ ships \in SUBSET (SUBSET AllCells)
    /\ retries \in 0..MaxRetries

(* Two ships never touch, not even by a corner: this is what lets IsKilled   *)
(* and MarkKill take a run of ship cells for one ship.                       *)
ShipsApart == \A s, t \in ships : s # t => Apart(s, t)

(* The cells still offered to the next ship are exactly those that neither   *)
(* carry a ship nor lie beside one: no room is lost and none given twice.    *)
AvailableIsFree == available = {c \in AllCells : \A s \in ships : Near(c) \cap s = {}}

(* A finished field has every ship of the list, and weight_, which the       *)
(* constructor sets without counting, is the number of its ship cells: the   *)
(* game ends when the last ship is sunk and not before.                      *)
WeightIsShipCells ==
    ~Placing =>
        /\ Cardinality(ships) = Len(ShipSizes)
        /\ field = FieldOf(ships)
=============================================================================
