--------------------------- MODULE MCSeabattleGame ---------------------------
(* Instances of SeabattleGame for TLC. *)
EXTENDS SeabattleGame

(* A fleet of one ship of two cells along a row.                             *)
OneDomino == {{ShipCells(0, 0, 1, 2)}}

Shot(x, y) == <<Letter(y), Digit(x + 1)>>

(* Shots at both cells of the ship and at the water.                         *)
SomeShots == {Shot(0, 0), Shot(1, 0), Shot(0, 1)}

(* With lines after which readers take one message for another: two shots at *)
(* once, and a row and a column one beyond the last, which ParseMove lets    *)
(* pass; the row lies outside of the array, the column in the next row.      *)
AnyLines ==
    SomeShots \cup {Shot(0, 0) \o Shot(1, 0), Shot(0, FieldSize), Shot(FieldSize, 0)}
=============================================================================
