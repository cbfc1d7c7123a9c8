------------------------ MODULE MCSeabattlePlacement ------------------------
(* Instances of SeabattlePlacement for TLC. *)
EXTENDS SeabattlePlacement

Three_Two_One == <<3, 2, 1>>
=============================================================================
