------------------------------ MODULE MCRadio ------------------------------
(* Instances of Radio for TLC. *)
EXTENDS Radio
=============================================================================
