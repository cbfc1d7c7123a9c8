--------------------------- MODULE DeskCalculator ---------------------------
(* What the calculator promises whoever presses its keys, with no text, no   *)
(* display and no key by key input: for each number type a desk calculator   *)
(* with an entry, at most one operation pending with its left operand, and a *)
(* memory.  The desk calculators share nothing but the keys, which are those *)
(* of the chosen type.                                                       *)

CONSTANTS Types, Operations,
          Zero,                  \* of every type
          Evaluate(_, _, _, _)   \* the outcome <<kind, number>> of an operation of a type

VARIABLES chosen,     \* the type whose keys are pressed
          entry,      \* the number a key would work on, for each type
          pending,    \* <<left operand, operation>> or <<>>, for each type
          memory      \* <<number>> or <<>>, for each type

vars == <<chosen, entry, pending, memory>>

Init ==
    /\ chosen \in Types
    /\ entry = [t \in Types |-> Zero]
    /\ pending = [t \in Types |-> <<>>]
    /\ memory = [t \in Types |-> <<>>]

(* Whatever is typed, and changes of sign.                                   *)
Enter ==
    /\ entry' = [entry EXCEPT ![chosen] = entry'[chosen]]
    /\ UNCHANGED <<chosen, pending, memory>>

(* A second operation takes the place of the first, which is forgotten; the  *)
(* left operand stays.                                                       *)
Operate ==
    /\ \E op \in Operations : pending' = [pending EXCEPT ![chosen] =
                               <<IF pending[chosen] = <<>> THEN entry[chosen]
                                 ELSE pending[chosen][1], op>>]
    /\ UNCHANGED <<chosen, entry, memory>>

(* An operation that fails changes nothing: it is still pending.             *)
Equals ==
    /\ pending[chosen] # <<>>
    /\ LET outcome == Evaluate(chosen, pending[chosen][2], pending[chosen][1], entry[chosen]) IN
           /\ outcome[1] = "value"
           /\ entry' = [entry EXCEPT ![chosen] = outcome[2]]
    /\ pending' = [pending EXCEPT ![chosen] = <<>>]
    /\ UNCHANGED <<chosen, memory>>

Clear ==
    /\ entry' = [entry EXCEPT ![chosen] = Zero]
    /\ pending' = [pending EXCEPT ![chosen] = <<>>]
    /\ UNCHANGED <<chosen, memory>>

Save ==
    /\ memory' = [memory EXCEPT ![chosen] = <<entry[chosen]>>]
    /\ UNCHANGED <<chosen, entry, pending>>

(* Loading leaves the operation pending.                                     *)
Load ==
    /\ memory[chosen] # <<>>
    /\ entry' = [entry EXCEPT ![chosen] = memory[chosen][1]]
    /\ UNCHANGED <<chosen, pending, memory>>

Forget ==
    /\ memory' = [memory EXCEPT ![chosen] = <<>>]
    /\ UNCHANGED <<chosen, entry, pending>>

Choose == chosen' \in Types /\ UNCHANGED <<entry, pending, memory>>

Next == Enter \/ Operate \/ Equals \/ Clear \/ Save \/ Load \/ Forget \/ Choose

Spec == Init /\ [][Next]_vars
=============================================================================
