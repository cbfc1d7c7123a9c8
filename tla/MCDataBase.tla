----------------------------- MODULE MCDataBase -----------------------------
(* Instances of DataBase for TLC. *)
EXTENDS DataBase

CONSTANTS p1, p2, r1, r2, r3

TwoProducers == {p1, p2}
ThreeReadings == {r1, r2, r3}
=============================================================================
