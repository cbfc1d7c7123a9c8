-------------------------- MODULE MCSeabattleShots --------------------------
(* Instances of SeabattleShots for TLC. *)
EXTENDS SeabattleShots

(* Every ship of up to three cells that fits the field ...                   *)
AllShips ==
    {s \in {ShipCells(x, y, dir, n) : x \in Coords, y \in Coords, dir \in 0..3, n \in 1..3} :
        s \subseteq Coords \X Coords}

(* ... and every pair of them that do not touch and have Weight cells.       *)
AllFleets ==
    {fleet \in {{s, t} : s, t \in AllShips} :
        /\ Cardinality(UNION fleet) = Weight
        /\ \A s, t \in fleet : s # t => Apart(s, t)}
=============================================================================
