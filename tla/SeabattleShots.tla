--------------------------- MODULE SeabattleShots ---------------------------
(* What one player's shots do, as if the shot, its answer and its marking    *)
(* were one step: the field of the player shot at and the picture the        *)
(* shooter has of it.  SeabattleGame, where they are messages of two         *)
(* programs, implements it once for each player.                             *)
(* (An operator whose name ends in an underscore and a remark is a fault put *)
(* in place of the operator it precedes.)                                    *)
EXTENDS SeabattleField

CONSTANTS Fleets,      \* the fleets a field may carry, each a set of ships
          Weight,      \* the initial value of weight_
          MaxColumn    \* the greatest column a shot may have

ASSUME ShotsAssumption ==
    /\ \A fleet \in Fleets : IsFleet(fleet) /\ FieldOf(fleet).weight = Weight
    /\ MaxColumn \in Nat

VARIABLES own,    \* my_field_ of the player shot at
          view    \* other_field_ of the shooter

vars == <<own, view>>

Init ==
    /\ own \in {[FieldOf(fleet) EXCEPT !.weight = Weight] : fleet \in Fleets}
    /\ view = Filled("UNKNOWN", Weight)

Mark_HitAsKill(f, answer, x, y) ==
    IF answer = "MISS" THEN MarkMiss(f, x, y) ELSE MarkKill(f, x, y)

(* The mark the shooter makes for an answer.                                 *)
Mark(f, answer, x, y) ==
    CASE answer = "MISS" -> MarkMiss(f, x, y)
      [] answer = "HIT"  -> MarkHit(f, x, y)
      [] answer = "KILL" -> MarkKill(f, x, y)

(* A shot while the game lasts.                                              *)
Fire(x, y) ==
    /\ ~IsLoser(own)
    /\ Index(x, y) \in Indices
    /\ own' = Shoot(own, x, y)
    /\ view' = Mark(view, ShotResult(own, x, y), x, y)

Next == \E x \in 0..MaxColumn, y \in Coords : Fire(x, y)

Spec == Init /\ [][Next]_vars

-----------------------------------------------------------------------------
(* Properties *)

(* The shooter's picture is right: it shows a hit where there was one, it    *)
(* calls a cell empty only if it is, and it counts the same cells afloat.    *)
ViewSound ==
    /\ \A i \in Indices :
           /\ view.cell[i] = "KILLED" <=> own.cell[i] = "KILLED"
           /\ view.cell[i] = "EMPTY" => own.cell[i] = "EMPTY"
    /\ view.weight = own.weight
    /\ own.weight = Cardinality({i \in Indices : own.cell[i] = "SHIP"})

Sunk(ship) == \A c \in ship : Get(own, c[1], c[2]) = "KILLED"

(* The fleet of the player shot at: the one whose cells are not empty.       *)
Occupied(f) == {i \in Indices : f.cell[i] # "EMPTY"}
FleetWith(cells) == CHOOSE fleet \in Fleets : CellsOf(fleet) = cells
FleetOf == FleetWith(Occupied(own))

(* When a ship is sunk the shooter sees all the water around it: KILL was    *)
(* answered for its last cell, and MarkKill marked every side.               *)
ShoreRevealed ==
    \A ship \in FleetOf :
        Sunk(ship) => \A c \in ship : \A n \in Near(c) \ ship :
            InField(n[1], n[2]) => Get(view, n[1], n[2]) = "EMPTY"

(* And no other water is given away: what a shot newly shows as water is the *)
(* cell shot at, or a cell around the ship that this shot sank (the walks of *)
(* MarkKill neither start before the ship is complete nor leave its shore).  *)
OnlyShoresGivenAway ==
    [][\A x \in 0..MaxColumn, y \in Coords, n \in Coords \X Coords :
          /\ Fire(x, y)
          /\ Get(view', n[1], n[2]) = "EMPTY" /\ Get(view, n[1], n[2]) # "EMPTY"
          => \/ n = <<x, y>>
             \/ \E ship \in FleetOf :
                    Sunk(ship)' /\ ~Sunk(ship) /\ \E c \in ship : n \in Near(c)]_vars

(* A shot is answered with KILL exactly if it sinks a ship (the enumerator   *)
(* ShotResult::KILL of seabattle.h:155, as opposed to HIT).                  *)
KillMeansSunk ==
    [][\A x \in 0..MaxColumn, y \in Coords :
          Fire(x, y) /\ own' # own =>
              (ShotResult(own, x, y) = "KILL" <=>
                  \E ship \in FleetOf : Sunk(ship)' /\ ~Sunk(ship))]_vars
=============================================================================
