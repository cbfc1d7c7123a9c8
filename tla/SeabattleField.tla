--------------------------- MODULE SeabattleField ---------------------------
(* The playing field of the sea battle game (seabattle.h): an array of       *)
(* FieldSize * FieldSize cells and weight_, the number of ship cells still   *)
(* afloat (on one's own field) or still to be found (in the view of the      *)
(* other's).  These are pure operators; the modules that extend this one     *)
(* place ships with them and shoot.  (An operator whose name ends in an      *)
(* underscore and a remark is a fault put in place of the one it precedes.)  *)
EXTENDS Integers, FiniteSets, Functions

CONSTANT FieldSize   \* field_size

ASSUME FieldSizeAssumption == FieldSize \in Nat \ {0}

States == {"UNKNOWN", "EMPTY", "KILLED", "SHIP"}
Indices == 0 .. FieldSize * FieldSize - 1
Coords == 0 .. FieldSize - 1
Fields == [cell : [Indices -> States], weight : Int]

(* A negative coordinate wraps to a huge size_t, which is not below          *)
(* field_size either.                                                        *)
InField(x, y) == x \in Coords /\ y \in Coords

(* Get: the row-major position, with no check of the coordinates, so that a  *)
(* column of FieldSize denotes the first column of the next row.             *)
Index(x, y) == x + y * FieldSize

Get(f, x, y) == f.cell[Index(x, y)]
Put(f, i, s) == [f EXCEPT !.cell[i] = s]

Filled(s, weight) == [cell |-> [i \in Indices |-> s], weight |-> weight]

Directions == {<<1, 0>>, <<-1, 0>>, <<0, 1>>, <<0, -1>>}

(* The steps a walk from (x, y) makes: on through killed cells, up to and    *)
(* including the first cell that is not killed, and never out of the field.  *)
Walk(f, x, y, d) ==
    {k \in 0..FieldSize :
        /\ \A j \in 0..k : InField(x + j * d[1], y + j * d[2])
        /\ \A j \in 0..(k - 1) : Get(f, x + j * d[1], y + j * d[2]) = "KILLED"}

IsKilled_Neighbours(f, x, y) ==
    \A d \in Directions : \A k \in Walk(f, x, y, d) \cap {0, 1} :
        Get(f, x + k * d[1], y + k * d[2]) \in {"KILLED", "EMPTY"}

(* IsKilled: in no direction does the walk meet a cell that is still afloat. *)
IsKilled(f, x, y) ==
    \A d \in Directions : \A k \in Walk(f, x, y, d) :
        Get(f, x + k * d[1], y + k * d[2]) \in {"KILLED", "EMPTY"}

-----------------------------------------------------------------------------
Shoot_NotCounted(f, x, y) ==
    IF Get(f, x, y) # "SHIP" THEN f ELSE Put(f, Index(x, y), "KILLED")

(* Shoot at one's own field: the field after the shot, and the answer.       *)
Shoot(f, x, y) ==
    IF Get(f, x, y) # "SHIP" THEN f
    ELSE [Put(f, Index(x, y), "KILLED") EXCEPT !.weight = @ - 1]

ShotResult(f, x, y) ==
    IF Get(f, x, y) # "SHIP" THEN "MISS"
    ELSE IF IsKilled(Shoot(f, x, y), x, y) THEN "KILL" ELSE "HIT"

MarkMiss_Overwrites(f, x, y) == Put(f, Index(x, y), "EMPTY")

(* MarkMiss and MarkHit in the view of the other's field.                    *)
MarkMiss(f, x, y) ==
    IF Get(f, x, y) # "UNKNOWN" THEN f ELSE Put(f, Index(x, y), "EMPTY")

MarkHit(f, x, y) ==
    IF Get(f, x, y) # "UNKNOWN" THEN f
    ELSE [Put(f, Index(x, y), "KILLED") EXCEPT !.weight = @ - 1]

Around_OneWay(f, x, y) ==
    UNION {UNION {{<<x + k * d[1] + s * d[2], y + k * d[2] + s * d[1]>> : s \in {-1, 0, 1}}
                  : k \in Walk(f, x, y, d)} : d \in {<<1, 0>>, <<0, 1>>}}

(* The cells MarkKillInDirection touches in the four directions: the walk    *)
(* and the cells on either side of it.                                       *)
Around(f, x, y) ==
    UNION {UNION {{<<x + k * d[1] + s * d[2], y + k * d[2] + s * d[1]>> : s \in {-1, 0, 1}}
                  : k \in Walk(f, x, y, d)} : d \in Directions}

(* MarkKill: the ship is complete, so every unknown cell around it is empty. *)
MarkKill(f, x, y) ==
    IF Get(f, x, y) # "UNKNOWN" THEN f
    ELSE LET hit == MarkHit(f, x, y)
             shore == {Index(c[1], c[2]) : c \in {a \in Around(hit, x, y) : InField(a[1], a[2])}}
         IN [hit EXCEPT !.cell =
                [i \in Indices |-> IF i \in shore /\ @[i] = "UNKNOWN" THEN "EMPTY" ELSE @[i]]]

IsLoser(f) == f.weight = 0

-----------------------------------------------------------------------------
(* Ships, as sets of cells.                                                  *)

(* dir_to_dxdy                                                               *)
DxDy(dir) == <<IF dir = 1 THEN 1 ELSE IF dir = 3 THEN -1 ELSE 0,
               IF dir = 0 THEN 1 ELSE IF dir = 2 THEN -1 ELSE 0>>

ShipCells(x, y, dir, length) ==
    {<<x + i * DxDy(dir)[1], y + i * DxDy(dir)[2]>> : i \in 0..(length - 1)}

Near(c) == {<<c[1] + dx, c[2] + dy>> : dx \in {-1, 0, 1}, dy \in {-1, 0, 1}}

(* Ships do not touch, not even by a corner.                                 *)
Apart(s, t) == \A c \in s : Near(c) \cap t = {}

(* What TryGetRandomField makes: straight ships within the field, apart.     *)
IsFleet(ships) ==
    /\ \A s \in ships :
           /\ s \subseteq Coords \X Coords
           /\ \E x, y \in Coords, dir \in 0..3, length \in 1..FieldSize :
                  s = ShipCells(x, y, dir, length)
    /\ \A s, t \in ships : s # t => Apart(s, t)

(* The positions of their cells in the array.                                *)
CellsOf(ships) == {Index(c[1], c[2]) : c \in UNION ships}

(* The field on which exactly the cells of ships carry a ship.               *)
FieldOf(ships) ==
    [cell |-> [i \in Indices |-> IF i \in CellsOf(ships) THEN "SHIP" ELSE "EMPTY"],
     weight |-> Cardinality(CellsOf(ships))]
=============================================================================
