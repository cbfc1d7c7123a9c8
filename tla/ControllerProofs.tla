-------------------------- MODULE ControllerProofs --------------------------
(* Theorems about Controller, for every width of the numbers, every set of   *)
(* number types and digit keys, and sessions of any length.  Those about the *)
(* keys and the window do not depend on what the arithmetic yields; those    *)
(* about the numbers rest on lemmas that say what Calculate, Negate and      *)
(* FromString yield, up to the loop of IntegerPow.                           *)
EXTENDS Controller, NaturalsInduction, WellFoundedInduction, SequenceTheorems, TLAPS

-----------------------------------------------------------------------------
(* The keys and the window.                                                  *)

(* Every variable that each controller has of its own is a function of the   *)
(* types, and "M" is cached exactly while there is a number in memory.       *)
Shape ==
    /\ bound \in Types
    /\ DOMAIN operation = Types /\ DOMAIN result = Types /\ DOMAIN mem = Types
    /\ DOMAIN active = Types /\ DOMAIN input = Types /\ DOMAIN as_number = Types
    /\ DOMAIN text = Types /\ DOMAIN formula = Types /\ DOMAIN mem_text = Types
    /\ \A t \in Types : mem_text[t] = (mem[t] # <<>>)

Inv == Shape /\ WindowShowsBound /\ FormulaIsPending

-----------------------------------------------------------------------------
(* Lemmas *)

LEMMA InitInv == Init => Inv
<1> SUFFICES ASSUME Init PROVE Inv
  OBVIOUS
<1>1. Shape
  BY DEF Init, Shape
<1>2. WindowShowsBound
  BY DEF Init, WindowShowsBound
<1>3. FormulaIsPending
  BY DEF Init, FormulaIsPending
<1>. QED
  BY <1>1, <1>2, <1>3 DEF Inv

(* Nothing that the invariant speaks of changes.                             *)
LEMMA UnchangedInv ==
    ASSUME Inv, UNCHANGED <<arithmetic, number, cached, bound, labels>>
    PROVE  Inv'
BY DEF Inv, Shape, WindowShowsBound, FormulaIsPending, arithmetic, number, cached, labels

(* A key that changes the input and nothing else, or stops the program.      *)
LEMMA InputInv ==
    ASSUME Inv, Click, NEW isNumber, NEW s, NEW outcome, Input(isNumber, s, outcome)
    PROVE  Inv'
<1>1. CASE outcome[1] = "value"
  <2>1. /\ SetInput(isNumber, s, outcome[2])
        /\ UNCHANGED <<operation, result, mem, formula, mem_text, l_formula, l_memory>>
        /\ bound' = bound
    BY <1>1 DEF Input, arithmetic, Click
  <2> DEFINE shown == IF isNumber THEN Printed(outcome[2]) ELSE Typed(s)
  <2>2. l_result' = shown /\ text' = [text EXCEPT ![bound] = shown]
    BY <2>1 DEF SetInput, UpdateInputInView
  <2>3. Shape'
    BY <2>1, <2>2 DEF Inv, Shape, SetInput
  <2>4. WindowShowsBound'
    BY <2>1, <2>2 DEF Inv, Shape, WindowShowsBound
  <2>5. FormulaIsPending'
    BY <2>1 DEF Inv, FormulaIsPending
  <2>. QED
    BY <2>3, <2>4, <2>5 DEF Inv
<1>2. CASE outcome[1] # "value"
  BY <1>2, UnchangedInv DEF Input, Stop, Click
<1>. QED
  BY <1>1, <1>2

LEMMA TypedInv ==
    ASSUME Inv, Click, NEW s, SetInputAsString(s)
    PROVE  Inv'
BY InputInv DEF SetInputAsString

LEMMA OperationInv ==
    ASSUME Inv, NEW op \in Operations, OnOperation(op)
    PROVE  Inv'
<1>1. /\ bound' = bound /\ operation' = [operation EXCEPT ![bound] = op]
      /\ DOMAIN result' = Types
      /\ \A t \in Types \ {bound} : result'[t] = result[t]
      /\ l_formula' = <<result'[bound], op>>
      /\ formula' = [formula EXCEPT ![bound] = <<result'[bound], op>>]
      /\ UNCHANGED <<mem, text, mem_text, l_result, l_memory>>
  BY DEF OnOperation, Click, SetFormulaInView, Inv, Shape
<1>2. op # None
  BY ControllerAssumption
<1>3. Shape'
  BY <1>1 DEF OnOperation, Inv, Shape
<1>4. WindowShowsBound'
  BY <1>1, <1>2 DEF Inv, Shape, WindowShowsBound
<1>5. ASSUME NEW t \in Types
      PROVE  (/\ Len(formula[t]) = 2 => formula[t] = <<result[t], operation[t]>>
              /\ Len(formula[t]) = 3 =>
                     /\ operation[t] = None
                     /\ LET outcome == Calculate(t, formula[t][2], formula[t][1], formula[t][3])
                        IN outcome[1] = "value" /\ outcome[2] = result[t])'
  <2>1. CASE t = bound
    <3>1. formula'[t] = <<result'[t], op>> /\ operation'[t] = op
      BY <1>1, <2>1 DEF Inv, Shape
    <3>. QED
      BY <3>1
  <2>2. CASE t # bound
    <3>1. UNCHANGED <<formula[t], result[t], operation[t]>>
      BY <1>1, <2>2 DEF Inv, Shape
    <3>. QED
      BY <3>1 DEF Inv, FormulaIsPending
  <2>. QED
    BY <2>1, <2>2
<1>6. FormulaIsPending'
  BY <1>5 DEF FormulaIsPending
<1>. QED
  BY <1>3, <1>4, <1>6 DEF Inv

LEMMA EqualsInv ==
    ASSUME Inv, PressEquals
    PROVE  Inv'
<1> DEFINE outcome == Calculate(bound, operation[bound], result[bound], active[bound])
           closed == <<result[bound], operation[bound], active[bound]>>
<1>1. CASE outcome[1] = "value"
  <2>1. /\ bound' = bound /\ result' = [result EXCEPT ![bound] = outcome[2]]
        /\ operation' = [operation EXCEPT ![bound] = None]
        /\ l_formula' = closed /\ formula' = [formula EXCEPT ![bound] = closed]
        /\ SetInputAsNumber(outcome[2])
        /\ UNCHANGED <<mem, mem_text, l_memory>>
    BY <1>1 DEF PressEquals, Click, SetFormulaInView, Completed
  <2> HIDE DEF closed
  <2>2. /\ l_result' = Printed(outcome[2]) /\ text' = [text EXCEPT ![bound] = Printed(outcome[2])]
        /\ DOMAIN active' = Types /\ DOMAIN input' = Types /\ DOMAIN as_number' = Types
    BY <2>1 DEF SetInputAsNumber, SetInput, UpdateInputInView, Inv, Shape
  <2>3. Shape'
    BY <2>1, <2>2 DEF Inv, Shape
  <2>4. WindowShowsBound'
    BY <2>1, <2>2 DEF Inv, Shape, WindowShowsBound
  <2>5. ASSUME NEW t \in Types
        PROVE  (/\ Len(formula[t]) = 2 => formula[t] = <<result[t], operation[t]>>
                /\ Len(formula[t]) = 3 =>
                       /\ operation[t] = None
                       /\ LET o == Calculate(t, formula[t][2], formula[t][1], formula[t][3])
                          IN o[1] = "value" /\ o[2] = result[t])'
    <3>1. CASE t = bound
      <4>1. formula'[t] = closed /\ operation'[t] = None /\ result'[t] = outcome[2]
        BY <2>1, <3>1 DEF Inv, Shape
      <4>2. /\ Len(closed) = 3 /\ closed[1] = result[bound] /\ closed[2] = operation[bound]
            /\ closed[3] = active[bound]
        BY DEF closed
      <4>3. Calculate(t, closed[2], closed[1], closed[3]) = outcome
        BY <4>2, <3>1
      <4>. QED
        BY <4>1, <4>2, <4>3, <1>1
    <3>2. CASE t # bound
      <4>1. UNCHANGED <<formula[t], result[t], operation[t]>>
        BY <2>1, <3>2 DEF Inv, Shape
      <4>. QED
        BY <4>1 DEF Inv, FormulaIsPending
    <3>. QED
      BY <3>1, <3>2
  <2>6. FormulaIsPending'
    BY <2>5 DEF FormulaIsPending
  <2>. QED
    BY <2>3, <2>4, <2>6 DEF Inv
<1>2. CASE outcome[1] = "error"
  <2>1. /\ operation[bound] # None /\ l_result' = ErrorText
        /\ UNCHANGED <<arithmetic, number, cached, bound, l_formula, l_memory>>
    BY <1>2 DEF PressEquals, Click
  <2>. QED
    BY <2>1 DEF Inv, Shape, WindowShowsBound, FormulaIsPending, arithmetic, number, cached
<1>3. CASE outcome[1] \notin {"value", "error"}
  <2>1. Stop(outcome) /\ bound' = bound
    BY <1>3 DEF PressEquals, Click
  <2>. QED
    BY <2>1, UnchangedInv DEF Stop
<1>. QED
  BY <1>1, <1>2, <1>3

LEMMA ClearInv ==
    ASSUME Inv, PressClear
    PROVE  Inv'
<1>1. /\ bound' = bound /\ operation' = [operation EXCEPT ![bound] = None]
      /\ l_formula' = <<>> /\ formula' = [formula EXCEPT ![bound] = <<>>]
      /\ l_result' = Printed(Zero) /\ text' = [text EXCEPT ![bound] = Printed(Zero)]
      /\ DOMAIN active' = Types /\ DOMAIN input' = Types /\ DOMAIN as_number' = Types
      /\ UNCHANGED <<result, mem, mem_text, l_memory>>
  BY DEF PressClear, Click, SetFormulaInView, SetInputAsNumber, SetInput, UpdateInputInView,
         Inv, Shape
<1>2. Shape'
  BY <1>1 DEF Inv, Shape
<1>3. WindowShowsBound'
  BY <1>1 DEF Inv, Shape, WindowShowsBound
<1>4. FormulaIsPending'
  BY <1>1 DEF Inv, Shape, FormulaIsPending
<1>. QED
  BY <1>2, <1>3, <1>4 DEF Inv

LEMMA MemSaveInv ==
    ASSUME Inv, PressMemSave
    PROVE  Inv'
<1>1. /\ mem' = [mem EXCEPT ![bound] = <<active[bound]>>]
      /\ l_memory' = TRUE /\ mem_text' = [mem_text EXCEPT ![bound] = TRUE]
      /\ UNCHANGED <<bound, operation, result, number, text, formula, l_result, l_formula>>
  BY DEF PressMemSave, Click, SetMemInView
<1>. QED
  BY <1>1 DEF Inv, Shape, WindowShowsBound, FormulaIsPending, number

LEMMA MemClearInv ==
    ASSUME Inv, PressMemClear
    PROVE  Inv'
<1>1. /\ mem' = [mem EXCEPT ![bound] = <<>>]
      /\ l_memory' = FALSE /\ mem_text' = [mem_text EXCEPT ![bound] = FALSE]
      /\ UNCHANGED <<bound, operation, result, number, text, formula, l_result, l_formula>>
  BY DEF PressMemClear, Click, SetMemInView
<1>. QED
  BY <1>1 DEF Inv, Shape, WindowShowsBound, FormulaIsPending, number

LEMMA MemLoadInv ==
    ASSUME Inv, PressMemLoad
    PROVE  Inv'
<1> DEFINE n == mem[bound][1]
<1>1. /\ l_formula' = <<>> /\ formula' = [formula EXCEPT ![bound] = <<>>]
      /\ l_result' = Printed(n) /\ text' = [text EXCEPT ![bound] = Printed(n)]
      /\ DOMAIN active' = Types /\ DOMAIN input' = Types /\ DOMAIN as_number' = Types
      /\ UNCHANGED <<bound, arithmetic, mem_text, l_memory>>
  BY DEF PressMemLoad, Click, SetFormulaInView, SetInputAsNumber, SetInput, UpdateInputInView,
         Inv, Shape
<1>2. Shape'
  BY <1>1 DEF Inv, Shape, arithmetic
<1>3. WindowShowsBound'
  BY <1>1 DEF Inv, Shape, WindowShowsBound, arithmetic
<1>4. FormulaIsPending'
  BY <1>1 DEF Inv, Shape, FormulaIsPending, arithmetic
<1>. QED
  BY <1>2, <1>3, <1>4 DEF Inv

LEMMA TypeKeyInv ==
    ASSUME Inv, NEW t \in Types, ChooseType(t)
    PROVE  Inv'
BY DEF ChooseType, Inv, Shape, WindowShowsBound, FormulaIsPending, arithmetic, number, cached

LEMMA NextInv == Inv /\ [Next]_vars => Inv'
<1> SUFFICES ASSUME Inv, [Next]_vars PROVE Inv'
  OBVIOUS
<1>1. CASE DigitKey
  BY <1>1, TypedInv DEF DigitKey, PressDigitKey
<1>2. CASE OperationKey
  BY <1>2, OperationInv DEF OperationKey
<1>3. CASE PressEquals
  BY <1>3, EqualsInv
<1>4. CASE PressClear
  BY <1>4, ClearInv
<1>5. CASE PressMemSave
  BY <1>5, MemSaveInv
<1>6. CASE PressMemLoad
  BY <1>6, MemLoadInv
<1>7. CASE PressMemClear
  BY <1>7, MemClearInv
<1>8. CASE PressPlusMinus
  <2>1. CASE as_number[bound]
    BY <1>8, <2>1, InputInv DEF PressPlusMinus
  <2>2. CASE ~as_number[bound]
    BY <1>8, <2>2, TypedInv DEF PressPlusMinus
  <2>. QED
    BY <2>1, <2>2
<1>9. CASE PressBackspace
  BY <1>9, TypedInv DEF PressBackspace
<1>10. CASE PressExtraKey
  BY <1>10, TypedInv DEF PressExtraKey
<1>11. CASE TypeKey
  BY <1>11, TypeKeyInv DEF TypeKey
<1>12. CASE UNCHANGED vars
  BY <1>12, UnchangedInv DEF vars
<1>. QED
  BY <1>1, <1>2, <1>3, <1>4, <1>5, <1>6, <1>7, <1>8, <1>9, <1>10, <1>11, <1>12
  DEF Next, ControlKey

LEMMA Invariance == Spec => []Inv
BY InitInv, NextInv, PTL DEF Spec

-----------------------------------------------------------------------------
(* Theorems *)

(* The labels of the window are those of the controller its keys call, after *)
(* any sequence of keys and changes of type (RevealView and the ...InView    *)
(* functions of controller.h).                                               *)
THEOREM WindowIsBound == Spec => []WindowShowsBound
<1>1. Inv => WindowShowsBound
  BY DEF Inv
<1>. QED
  BY <1>1, Invariance, PTL

(* The formula on display is the operation pending, or true (OnOperation,    *)
(* EQUALS, CLEAR and MEM_LOAD of controller.h).                              *)
THEOREM FormulaHolds == Spec => []FormulaIsPending
<1>1. Inv => FormulaIsPending
  BY DEF Inv
<1>. QED
  BY <1>1, Invariance, PTL
-----------------------------------------------------------------------------
(* The refinement *)

LEMMA InitRefines == Init => Desk!Init
BY DEF Init, Desk!Init, Pending

(* A desk calculator does not see a step that leaves these alone.            *)
LEMMA UnseenRefines ==
    ASSUME UNCHANGED <<bound, active, operation, result, mem>>
    PROVE  UNCHANGED Desk!vars
BY DEF Desk!vars, Pending

LEMMA EntryRefines ==
    ASSUME Inv, UNCHANGED <<bound, operation, result, mem>>,
           NEW n, active' = [active EXCEPT ![bound] = n]
    PROVE  Desk!Enter
<1>1. active'[bound] = n
  BY DEF Inv, Shape
<1>. QED
  BY <1>1 DEF Desk!Enter, Pending

LEMMA InputRefines ==
    ASSUME Inv, Click, NEW isNumber, NEW s, NEW outcome, Input(isNumber, s, outcome)
    PROVE  Desk!Enter \/ UNCHANGED Desk!vars
<1>1. CASE outcome[1] = "value"
  BY <1>1, EntryRefines DEF Input, SetInput, arithmetic, Click
<1>2. CASE outcome[1] # "value"
  BY <1>2, UnseenRefines DEF Input, Stop, Click, arithmetic, number
<1>. QED
  BY <1>1, <1>2

LEMMA TypedRefines ==
    ASSUME Inv, Click, NEW s, SetInputAsString(s)
    PROVE  Desk!Enter \/ UNCHANGED Desk!vars
BY InputRefines DEF SetInputAsString

(* What is pending changes for the bound controller alone.                   *)
LEMMA PendingChanges ==
    ASSUME Inv, NEW op, NEW n,
           operation' = [operation EXCEPT ![bound] = op], result'[bound] = n,
           \A t \in Types \ {bound} : result'[t] = result[t]
    PROVE  Pending' = [Pending EXCEPT ![bound] = IF op = None THEN <<>> ELSE <<n, op>>]
<1> DEFINE here == IF op = None THEN <<>> ELSE <<n, op>>
<1>1. bound \in Types /\ operation'[bound] = op
  BY DEF Inv, Shape
<1>2. \A t \in Types \ {bound} : operation'[t] = operation[t]
  BY DEF Inv, Shape
<1>3. Pending' = [t \in Types |-> IF operation'[t] = None THEN <<>>
                                   ELSE <<result'[t], operation'[t]>>]
  BY DEF Pending
<1>4. Pending' = [t \in Types |-> IF t = bound THEN here ELSE Pending[t]]
  <2>1. ASSUME NEW t \in Types
        PROVE  Pending'[t] = IF t = bound THEN here ELSE Pending[t]
    <3>1. CASE t = bound
      BY <3>1, <1>1, <1>3
    <3>2. CASE t # bound
      BY <3>2, <1>2, <1>3 DEF Pending
    <3>. QED
      BY <3>1, <3>2
  <2> HIDE DEF here
  <2>. QED
    BY <2>1, <1>3
<1>. QED
  <2> HIDE DEF here
  <2>1. [Pending EXCEPT ![bound] = here] = [t \in Types |-> IF t = bound THEN here ELSE Pending[t]]
    BY DEF Pending
  <2>2. Pending' = [Pending EXCEPT ![bound] = here]
    BY <1>4, <2>1
  <2>. QED
    BY <2>2 DEF here

LEMMA OperationRefines ==
    ASSUME Inv, NEW op \in Operations, OnOperation(op)
    PROVE  Desk!Operate
<1> DEFINE left == IF operation[bound] = None THEN active[bound] ELSE result[bound]
<1>1. /\ result'[bound] = left /\ \A t \in Types \ {bound} : result'[t] = result[t]
      /\ operation' = [operation EXCEPT ![bound] = op]
      /\ UNCHANGED <<bound, active, mem>>
  BY DEF OnOperation, Click, Inv, Shape
<1>2. op # None
  BY ControllerAssumption
<1>3. Pending' = [Pending EXCEPT ![bound] = <<left, op>>]
  <2> HIDE DEF left
  <2>. QED
    BY <1>1, <1>2, PendingChanges
<1>4. left = IF Pending[bound] = <<>> THEN active[bound] ELSE Pending[bound][1]
  BY DEF Inv, Shape, Pending
<1>. QED
  BY <1>1, <1>3, <1>4 DEF Desk!Operate

LEMMA EqualsRefines ==
    ASSUME Inv, PressEquals
    PROVE  Desk!Equals \/ UNCHANGED Desk!vars
<1> DEFINE outcome == Calculate(bound, operation[bound], result[bound], active[bound])
<1>1. CASE outcome[1] = "value"
  <2>1. /\ result' = [result EXCEPT ![bound] = outcome[2]]
        /\ operation' = [operation EXCEPT ![bound] = None]
        /\ active' = [active EXCEPT ![bound] = outcome[2]]
        /\ UNCHANGED <<bound, mem>>
    BY <1>1 DEF PressEquals, Click, SetInputAsNumber, SetInput, Completed
  <2>2. /\ Pending[bound] # <<>> /\ Pending[bound][1] = result[bound]
        /\ Pending[bound][2] = operation[bound]
    BY DEF PressEquals, Pending, Inv, Shape
  <2>3. Pending' = [Pending EXCEPT ![bound] = <<>>]
    <3>1. result'[bound] = outcome[2] /\ \A t \in Types \ {bound} : result'[t] = result[t]
      BY <2>1 DEF Inv, Shape
    <3> HIDE DEF outcome
    <3>. QED
      BY <2>1, <3>1, PendingChanges
  <2>. QED
    BY <1>1, <2>1, <2>2, <2>3 DEF Desk!Equals
<1>2. CASE outcome[1] # "value"
  <2>1. UNCHANGED <<bound, arithmetic, number>>
    BY <1>2 DEF PressEquals, Stop, Click
  <2>. QED
    BY <2>1, UnseenRefines DEF arithmetic, number
<1>. QED
  BY <1>1, <1>2

LEMMA ClearRefines ==
    ASSUME Inv, PressClear
    PROVE  Desk!Clear
<1>1. /\ operation' = [operation EXCEPT ![bound] = None]
      /\ active' = [active EXCEPT ![bound] = Zero]
      /\ UNCHANGED <<bound, result, mem>>
  BY DEF PressClear, Click, SetInputAsNumber, SetInput
<1>2. Pending' = [Pending EXCEPT ![bound] = <<>>]
  BY <1>1, PendingChanges
<1>. QED
  BY <1>1, <1>2 DEF Desk!Clear

LEMMA MemoryRefines ==
    ASSUME Inv, PressMemSave \/ PressMemLoad \/ PressMemClear
    PROVE  Desk!Save \/ Desk!Load \/ Desk!Forget
<1>1. CASE PressMemSave
  BY <1>1 DEF PressMemSave, Click, number, Desk!Save, Pending
<1>2. CASE PressMemLoad
  BY <1>2 DEF PressMemLoad, Click, SetInputAsNumber, SetInput, arithmetic, Desk!Load, Pending
<1>3. CASE PressMemClear
  BY <1>3 DEF PressMemClear, Click, number, Desk!Forget, Pending
<1>. QED
  BY <1>1, <1>2, <1>3

LEMMA TypeKeyRefines ==
    ASSUME NEW t \in Types, ChooseType(t)
    PROVE  Desk!Choose
BY DEF ChooseType, arithmetic, number, Desk!Choose, Pending

LEMMA NextRefines == Inv /\ [Next]_vars => [Desk!Next]_(Desk!vars)
<1> SUFFICES ASSUME Inv, [Next]_vars PROVE Desk!Next \/ UNCHANGED Desk!vars
  OBVIOUS
<1>1. CASE DigitKey
  BY <1>1, TypedRefines DEF DigitKey, PressDigitKey, Desk!Next
<1>2. CASE OperationKey
  BY <1>2, OperationRefines DEF OperationKey, Desk!Next
<1>3. CASE PressEquals
  BY <1>3, EqualsRefines DEF Desk!Next
<1>4. CASE PressClear
  BY <1>4, ClearRefines DEF Desk!Next
<1>5. CASE PressMemSave \/ PressMemLoad \/ PressMemClear
  BY <1>5, MemoryRefines DEF Desk!Next
<1>6. CASE PressPlusMinus
  <2>1. CASE as_number[bound]
    BY <1>6, <2>1, InputRefines DEF PressPlusMinus, Desk!Next
  <2>2. CASE ~as_number[bound]
    BY <1>6, <2>2, TypedRefines DEF PressPlusMinus, Desk!Next
  <2>. QED
    BY <2>1, <2>2
<1>7. CASE PressBackspace
  BY <1>7, TypedRefines DEF PressBackspace, Desk!Next
<1>8. CASE PressExtraKey
  BY <1>8, TypedRefines DEF PressExtraKey, Desk!Next
<1>9. CASE TypeKey
  BY <1>9, TypeKeyRefines DEF TypeKey, Desk!Next
<1>10. CASE UNCHANGED vars
  BY <1>10, UnseenRefines DEF vars, arithmetic, number
<1>. QED
  BY <1>1, <1>2, <1>3, <1>4, <1>5, <1>6, <1>7, <1>8, <1>9, <1>10 DEF Next, ControlKey

(* The controllers and their window are independent desk calculators         *)
(* (controller.h and the switching of main.cpp).                             *)
THEOREM ControllersAreDesks == Spec => ImplementsDesk
<1>1. Spec => Desk!Init /\ [][Desk!Next]_(Desk!vars)
  BY InitRefines, NextRefines, Invariance, PTL DEF Spec
<1>. QED
  BY <1>1 DEF ImplementsDesk, Desk!Spec

-----------------------------------------------------------------------------
(* Induction, and the recursion of the functions of Numbers.                 *)

(* A set of naturals has a least element, the start of every induction here. *)
LEMMA Least ==
    ASSUME NEW T \in SUBSET Nat, T # {}
    PROVE  \E n \in T : \A m \in T : n <= m
<1>1. PICK n \in T : \A m \in T : ~(<<m, n>> \in OpToRel(<, Nat))
  BY WFMin, NatLessThanWellFounded
<1>2. \A m \in T : ~(m < n)
  BY <1>1 DEF OpToRel
<1>. QED
  BY <1>2

(* Induction up to n, on the set of the numbers reached.                     *)
LEMMA Climb ==
    ASSUME NEW n \in Nat, NEW T, 0 \in T,
           \A k \in 0..n : k < n /\ k \in T => k + 1 \in T
    PROVE  \A k \in 0..n : k \in T
<1> DEFINE missing == {k \in 0..n : k \notin T}
<1>1. SUFFICES ASSUME missing # {} PROVE FALSE
  OBVIOUS
<1>2. PICK k \in missing : \A m \in missing : k <= m
  <2>1. missing \in SUBSET Nat
    OBVIOUS
  <2>. QED
    BY <1>1, <2>1, Least
<1>3. k - 1 \in 0..n /\ k - 1 \in T
  BY <1>2
<1>. QED
  BY <1>2, <1>3

(* A function defined by recursion up to n exists.                           *)
IsStep(step, n, S) == \A k \in 0..n : \A v \in S : step[<<k, v>>] \in S

Recurs(f, n, S, base, step) ==
    /\ f \in [0..n -> S]
    /\ f[0] = base
    /\ \A k \in 1..n : f[k] = step[<<k, f[k - 1]>>]

LEMMA RecursionExists ==
    ASSUME NEW n \in Nat, NEW S, NEW base \in S, NEW step, IsStep(step, n, S)
    PROVE  \E f : Recurs(f, n, S, base, step)
<1> DEFINE reached == {m \in 0..n : \E f : Recurs(f, m, S, base, step)}
<1>1. 0 \in reached
  <2>1. Recurs([k \in 0..0 |-> base], 0, S, base, step)
    BY DEF Recurs
  <2>. QED
    BY <2>1
<1>2. ASSUME NEW m \in 0..n, m < n, m \in reached
      PROVE  m + 1 \in reached
  <2>1. PICK f : Recurs(f, m, S, base, step)
    BY <1>2
  <2> DEFINE v == step[<<m + 1, f[m]>>]
             g == [k \in 0..(m + 1) |-> IF k = m + 1 THEN v ELSE f[k]]
  <2>2. v \in S
    BY <1>2, <2>1 DEF Recurs, IsStep
  <2>. HIDE DEF v
  <2>3. g \in [0..(m + 1) -> S]
    BY <1>2, <2>1, <2>2 DEF Recurs
  <2>4. g[0] = base /\ g[m] = f[m] /\ \A k \in 1..m : g[k] = f[k] /\ g[k - 1] = f[k - 1]
    BY <1>2, <2>1 DEF Recurs
  <2>5. g[m + 1] = v
    BY <1>2
  <2>. HIDE DEF g
  <2>6. ASSUME NEW k \in 1..(m + 1) PROVE g[k] = step[<<k, g[k - 1]>>]
    <3>1. CASE k = m + 1
      <4>1. k - 1 = m
        BY <1>2, <3>1
      <4>. QED
        BY <2>4, <2>5, <3>1, <4>1 DEF v
    <3>2. CASE k \in 1..m
      BY <2>1, <2>4, <3>2 DEF Recurs
    <3>. QED
      BY <1>2, <3>1, <3>2
  <2>7. Recurs(g, m + 1, S, base, step)
    BY <2>3, <2>4, <2>6 DEF Recurs
  <2>. QED
    BY <1>2, <2>7
<1>3. n \in reached
  <2>. HIDE DEF reached
  <2>. QED
    BY <1>1, <1>2, Climb
<1>. QED
  BY <1>3

(* The width *)

(* What the width of the numbers fixes.                                      *)
LEMMA WidthFacts ==
    /\ Modulus \in Nat /\ MAX \in Nat /\ MAX >= 1 /\ MIN \in Int
    /\ Modulus = 2 * (MAX + 1) /\ MIN = -(MAX + 1)
    /\ \A n : n \in Ints <=> n \in Int /\ MIN <= n /\ n <= MAX
    /\ Overflown \notin Ints /\ Overflown \notin 0..(Modulus - 1)
<1>1. Modulus \in Nat /\ Modulus > 2 /\ Modulus = 2 * (Modulus \div 2) /\ Modulus \div 2 \in Nat
  BY ModulusAssumption
<1>. QED
  BY <1>1 DEF MAX, MIN, Ints, Overflown

LEMMA QuotientUnique ==
    ASSUME NEW d \in Nat \ {0}, NEW q \in Int, NEW n \in Int, n = d * q
    PROVE  n \div d = q /\ n % d = 0
OBVIOUS

LEMMA DividesIs ==
    ASSUME NEW d \in Nat \ {0}, NEW n \in Int, Divides(d, n)
    PROVE  n \div d \in Int /\ n = d * (n \div d)
BY DEF Divides

(* A divisor of a number other than zero is no greater than it.              *)
LEMMA DivisorAtMost ==
    ASSUME NEW d \in Nat \ {0}, NEW q \in Int, NEW n \in Int, n = d * q, n # 0
    PROVE  d <= Abs(n) /\ q # 0
<1>1. q # 0
  OBVIOUS
<1>2. CASE q >= 1
  <2>1. d * q >= d
    BY <1>2
  <2>. QED
    BY <1>1, <2>1 DEF Abs
<1>3. CASE q <= -1
  <2>1. d * (-q) >= d
    BY <1>3
  <2>2. d * (-q) = -(d * q)
    OBVIOUS
  <2>. QED
    BY <1>1, <2>1, <2>2 DEF Abs
<1>. QED
  BY <1>1, <1>2, <1>3

-----------------------------------------------------------------------------
(* Fractions: Reduction gives equal numbers in lowest terms.                 *)

LEMMA AbsIs ==
    \A n \in Int : Abs(n) \in Nat /\ (n # 0 => Abs(n) >= 1) /\ (Abs(n) = n \/ Abs(n) = -n)
BY DEF Abs

(* One divides both numbers, so there is a greatest common divisor.          *)
LEMMA GcdIs ==
    ASSUME NEW n \in Int, NEW d \in Int \ {0}
    PROVE  /\ Gcd(n, d) \in 1..Abs(d)
           /\ Divides(Gcd(n, d), n) /\ Divides(Gcd(n, d), d)
           /\ \A h \in Nat : h > Gcd(n, d) /\ h <= Abs(d) => ~(Divides(h, n) /\ Divides(h, d))
<1> DEFINE Common(g) == Divides(g, n) /\ Divides(g, d)
           IsGcd(g) == Common(g) /\ \A h \in (g + 1)..Abs(d) : ~Common(h)
           gaps == {m \in Nat : \E g \in 1..Abs(d) : Common(g) /\ m = Abs(d) - g}
<1>1. Abs(d) \in Nat /\ Abs(d) >= 1
  BY AbsIs
<1>2. Common(1)
  BY DEF Divides
<1>3. PICK m \in gaps : \A l \in gaps : m <= l
  <2>1. Abs(d) - 1 \in gaps
    <3>. HIDE DEF Common
    <3>. QED
      BY <1>1, <1>2
  <2>2. gaps \in SUBSET Nat
    OBVIOUS
  <2>. HIDE DEF gaps
  <2>. QED
    BY <2>1, <2>2, Least
<1>4. \E g \in 1..Abs(d) : IsGcd(g)
  <2>1. PICK g \in 1..Abs(d) : Common(g) /\ m = Abs(d) - g
    BY <1>3
  <2>2. ASSUME NEW h \in (g + 1)..Abs(d), Common(h) PROVE FALSE
    <3>1. Abs(d) - h \in gaps
      <4>. HIDE DEF Common
      <4>. QED
        BY <1>1, <2>2
    <3>. HIDE DEF gaps, Common
    <3>. QED
      BY <1>1, <1>3, <2>1, <2>2, <3>1
  <2>. QED
    BY <2>1, <2>2
<1>5. Gcd(n, d) = CHOOSE g \in 1..Abs(d) : IsGcd(g)
  BY DEF Gcd
<1>6. Gcd(n, d) \in 1..Abs(d) /\ IsGcd(Gcd(n, d))
  <2>. HIDE DEF IsGcd
  <2>. QED
    BY <1>4, <1>5
<1>. HIDE DEF gaps
<1>. QED
  BY <1>1, <1>6

(* The fraction that Reduction makes: its parts times the divisor give those *)
(* it was made of, with the sign of the denominator; and it is in lowest     *)
(* terms.                                                                    *)
LEMMA ReducedIs ==
    ASSUME NEW n \in Int, NEW d \in Int \ {0}
    PROVE  LET r == Reduced(n, d)
               g == Gcd(n, d)
               sign == IF d < 0 THEN -1 ELSE 1
           IN /\ r = <<r[1], r[2]>> /\ r[1] \in Int /\ r[2] \in Nat \ {0}
              /\ sign * n = g * r[1] /\ sign * d = g * r[2]
              /\ Gcd(r[1], r[2]) = 1
<1> DEFINE g == Gcd(n, d)
           sign == IF d < 0 THEN -1 ELSE 1
           p == (sign * n) \div g
           q == (sign * d) \div g
<1>1. g \in Nat \ {0} /\ g <= Abs(d)
  BY GcdIs, AbsIs
<1>2. PICK a \in Int : n = g * a
  BY <1>1, GcdIs, DividesIs
<1>3. PICK b \in Int : d = g * b
  BY <1>1, GcdIs, DividesIs
<1>4. sign * n = g * (sign * a) /\ sign * d = g * (sign * b)
  <2>. HIDE DEF g
  <2>. QED
    BY <1>1, <1>2, <1>3
<1>5. p = sign * a /\ q = sign * b
  <2>1. sign * a \in Int /\ sign * b \in Int /\ sign * n \in Int /\ sign * d \in Int
    OBVIOUS
  <2>. HIDE DEF g, sign, p, q
  <2>2. (sign * n) \div g = sign * a
    <3>1. sign * n = g * (sign * a)
      BY <1>4
    <3>2. /\ g \in Nat \ {0} /\ sign * n \in Int /\ sign * a \in Int
      BY <1>1, <2>1
    <3>. QED
      BY <3>1, <3>2, QuotientUnique
  <2>3. (sign * d) \div g = sign * b
    BY <1>1, <1>4, <2>1, QuotientUnique
  <2>. QED
    BY <2>2, <2>3 DEF p, q
<1>6. p \in Int /\ q \in Int /\ sign * n = g * p /\ sign * d = g * q /\ sign * d >= 1
  <2>. HIDE DEF g
  <2>. QED
    BY <1>4, <1>5
<1>7. q >= 1
  <2>. HIDE DEF g, q, p, sign
  <2>1. SUFFICES ASSUME q <= 0 PROVE FALSE
    BY <1>6
  <2>2. g * q <= 0
    BY <1>1, <1>6, <2>1
  <2>. QED
    BY <1>1, <1>6, <2>2
<1>8. Gcd(p, q) = 1
  <2> DEFINE h == Gcd(p, q)
  <2>1. h \in Nat \ {0} /\ Divides(h, p) /\ Divides(h, q)
    <3>1. Abs(q) \in Nat /\ q \in Int \ {0}
      BY <1>6, <1>7, AbsIs
    <3>. HIDE DEF p, q, h
    <3>2. h \in 1..Abs(q) /\ Divides(h, p) /\ Divides(h, q)
      BY <1>6, <3>1, GcdIs DEF h
    <3>. QED
      BY <3>1, <3>2
  <2>2. SUFFICES ASSUME h > 1 PROVE FALSE
    <3>. HIDE DEF p, q
    <3>. QED
      BY <2>1
  <2>3. PICK u \in Int : p = h * u
    <3>. HIDE DEF h, p, q
    <3>. QED
      BY <1>6, <2>1, DividesIs
  <2>4. PICK v \in Int : q = h * v
    <3>. HIDE DEF h, p, q
    <3>. QED
      BY <1>6, <2>1, DividesIs
  <2>5. g * h \in Nat \ {0} /\ g * h > g
    <3>. HIDE DEF g, h
    <3>. QED
      BY <1>1, <2>1, <2>2
  <2>6. n = (g * h) * (sign * u) /\ d = (g * h) * (sign * v)
    <3>1. sign * n = (g * h) * u /\ sign * d = (g * h) * v
      <4>. HIDE DEF g, h, p, q, sign
      <4>. QED
        BY <1>1, <1>6, <2>1, <2>3, <2>4
    <3>2. sign = 1 \/ sign = -1
      OBVIOUS
    <3>. HIDE DEF g, h, sign
    <3>. QED
      BY <2>5, <3>1, <3>2
  <2>7. sign * u \in Int /\ sign * v \in Int
    OBVIOUS
  <2>8. Divides(g * h, n) /\ Divides(g * h, d) /\ g * h <= Abs(d)
    <3>. HIDE DEF g, h, sign
    <3>. QED
      BY <2>5, <2>6, <2>7, QuotientUnique, DivisorAtMost DEF Divides
  <2>. HIDE DEF g, h
  <2>. QED
    BY <2>5, <2>8, GcdIs DEF g
<1>9. Reduced(n, d) = <<p, q>>
  BY DEF Reduced
<1>. HIDE DEF g, p, q, sign
<1>10. Reduced(n, d)[1] = p /\ Reduced(n, d)[2] = q
  BY <1>9
<1>. QED
  BY <1>6, <1>7, <1>8, <1>9, <1>10 DEF g, sign

LEMMA QuotientAtMost ==
    ASSUME NEW g \in Nat \ {0}, NEW n \in Int, NEW q \in Int, n = g * q
    PROVE  Abs(q) <= Abs(n)
<1>1. CASE q >= 0
  <2>1. g * q >= q
    BY <1>1
  <2>. QED
    BY <1>1, <2>1 DEF Abs
<1>2. CASE q < 0
  <2>1. g * (-q) >= -q
    BY <1>2
  <2>2. g * (-q) = -n
    OBVIOUS
  <2>. QED
    BY <1>2, <2>1, <2>2 DEF Abs
<1>. QED
  BY <1>1, <1>2

(* A fraction and the one Reduction makes of it are equal.                   *)
LEMMA ReducedIsSame ==
    ASSUME NEW n \in Int, NEW d \in Int \ {0}
    PROVE  /\ Reduced(n, d)[1] * d = n * Reduced(n, d)[2]
           /\ Abs(Reduced(n, d)[1]) <= Abs(n) /\ Reduced(n, d)[2] <= Abs(d)
<1> DEFINE r == Reduced(n, d)
           g == Gcd(n, d)
           sign == IF d < 0 THEN -1 ELSE 1
<1>1. /\ r[1] \in Int /\ r[2] \in Nat \ {0} /\ sign * n = g * r[1] /\ sign * d = g * r[2]
      /\ g \in Nat \ {0}
  <2>1. g \in 1..Abs(d) /\ Abs(d) \in Nat
    BY GcdIs, AbsIs
  <2>2. r[1] \in Int /\ r[2] \in Nat \ {0} /\ sign * n = g * r[1] /\ sign * d = g * r[2]
    BY ReducedIs
  <2>. HIDE DEF g, r, sign
  <2>. QED
    BY <2>1, <2>2
<1>2. (sign = 1 /\ d > 0) \/ (sign = -1 /\ d < 0)
  OBVIOUS
<1>. HIDE DEF r, g, sign
<1>3. r[1] * (g * r[2]) = (g * r[1]) * r[2]
  BY <1>1
<1>4. r[1] * d = n * r[2]
  <2>1. r[1] * (sign * d) = (sign * n) * r[2]
    BY <1>1, <1>3
  <2>2. CASE sign = 1
    BY <1>1, <2>1, <2>2
  <2>3. CASE sign = -1
    <3>1. r[1] * (-d) = (-n) * r[2]
      BY <2>1, <2>3
    <3>. QED
      BY <1>1, <3>1
  <2>. QED
    BY <1>2, <2>2, <2>3
<1>5. Abs(sign * n) = Abs(n) /\ Abs(sign * d) = Abs(d) /\ sign * n \in Int /\ sign * d \in Int
  BY <1>2 DEF Abs
<1>6. Abs(r[1]) <= Abs(n)
  BY <1>1, <1>5, QuotientAtMost
<1>7. Abs(r[2]) <= Abs(d) /\ Abs(r[2]) = r[2]
  <2>1. Abs(r[2]) <= Abs(sign * d)
    <3>1. r[2] \in Int /\ sign * d \in Int /\ sign * d = g * r[2] /\ g \in Nat \ {0}
      BY <1>1, <1>5
    <3>. QED
      BY <3>1, QuotientAtMost
  <2>. QED
    BY <1>1, <1>5, <2>1 DEF Abs
<1>. QED
  BY <1>4, <1>6, <1>7 DEF r

(* The constructor of Rational: what it makes is in lowest terms and equal   *)
(* to its arguments.                                                         *)
LEMMA RationalIs ==
    ASSUME NEW n \in Int, NEW d \in Int
    PROVE  LET outcome == Rational(n, d) IN
           /\ outcome[1] \in {"value", "aborted", "undefined"}
           /\ outcome[1] = "value" =>
                  /\ outcome[2] \in Fractions /\ d # 0
                  /\ outcome[2][1] * d = n * outcome[2][2]
           /\ outcome[1] = "aborted" <=> n \in Ints /\ d = 0
           /\ outcome[1] = "undefined" => ~({n, d} \subseteq Ints \ {MIN})
<1>1. CASE ~({n, d} \subseteq Ints)
  <2>2. 0 \in Ints
    BY WidthFacts
  <2>3. ~(n \in Ints /\ d = 0)
    BY <1>1, <2>2
  <2>1. Rational(n, d) = Undefined
    BY <1>1, <2>3 DEF Rational
  <2>. QED
    BY <1>1, <2>1, <2>2 DEF Undefined
<1>2. CASE n \in Ints /\ d = 0
  <2>1. {n, d} \subseteq Ints
    BY <1>2, WidthFacts
  <2>2. Rational(n, d) = Aborted
    BY <1>2, <2>1 DEF Rational
  <2>. QED
    BY <1>2, <2>2 DEF Aborted
<1>3. CASE {n, d} \subseteq Ints /\ d # 0 /\ MIN \in {n, d}
  <2>1. Rational(n, d) = Undefined
    BY <1>3 DEF Rational
  <2>. QED
    BY <1>3, <2>1 DEF Undefined
<1>4. CASE {n, d} \subseteq Ints /\ d # 0 /\ MIN \notin {n, d}
  <2>1. Rational(n, d) = Value(Reduced(n, d))
    BY <1>4 DEF Rational
  <2>2. Reduced(n, d) = <<Reduced(n, d)[1], Reduced(n, d)[2]>>
        /\ Reduced(n, d)[1] \in Int /\ Reduced(n, d)[2] \in Nat \ {0}
        /\ Gcd(Reduced(n, d)[1], Reduced(n, d)[2]) = 1
    BY <1>4, ReducedIs
  <2>3. /\ Reduced(n, d)[1] * d = n * Reduced(n, d)[2]
        /\ Abs(Reduced(n, d)[1]) <= Abs(n) /\ Reduced(n, d)[2] <= Abs(d)
    BY <1>4, ReducedIsSame
  <2>4. Abs(n) <= MAX /\ Abs(d) <= MAX
    BY <1>4, WidthFacts DEF Abs
  <2>5. Reduced(n, d)[1] \in Ints \ {MIN} /\ Reduced(n, d)[2] \in 1..MAX
    <3>1. Abs(Reduced(n, d)[1]) <= MAX /\ Reduced(n, d)[2] <= MAX
      BY <2>2, <2>3, <2>4, WidthFacts, AbsIs
    <3>. QED
      BY <2>2, <3>1, WidthFacts DEF Abs
  <2>6. Reduced(n, d) \in Fractions
    BY <2>2, <2>5 DEF Fractions
  <2>. QED
    BY <1>4, <2>1, <2>3, <2>6 DEF Value
<1>. QED
  BY <1>1, <1>2, <1>3, <1>4

-----------------------------------------------------------------------------
(* The four operations of Calculator.                                        *)

(* The types whose numbers are over one.                                     *)
Integral == {"byte", "size", "int"}

(* The parts of a number of each type.                                       *)
LEMMA NumberIs ==
    ASSUME NEW t \in AllTypes, NEW a \in NumbersOf(t)
    PROVE  /\ a = <<a[1], a[2]>> /\ a[1] \in Int /\ a[2] \in Nat \ {0} /\ a[2] <= MAX
           /\ t \in Unsigned => a[1] \in 0..(Modulus - 1) /\ a[2] = 1
           /\ t = "int" => a[1] \in Ints /\ a[2] = 1
           /\ t = "rational" => a[1] \in Ints \ {MIN} /\ a[2] \in 1..MAX /\ Gcd(a[1], a[2]) = 1
<1>1. CASE t \in Unsigned
  <2>1. a \in (0..(Modulus - 1)) \X {1}
    BY <1>1 DEF NumbersOf, Unsigned
  <2>. QED
    BY <1>1, <2>1, WidthFacts DEF Unsigned
<1>2. CASE t = "int"
  <2>1. a \in Ints \X {1}
    BY <1>2 DEF NumbersOf, Unsigned
  <2>. QED
    BY <1>2, <2>1, WidthFacts DEF Unsigned
<1>3. CASE t = "rational"
  <2>1. a \in Fractions
    BY <1>3 DEF NumbersOf, Unsigned
  <2>. QED
    BY <1>3, <2>1, WidthFacts DEF Unsigned, Fractions
<1>. QED
  BY <1>1, <1>2, <1>3 DEF AllTypes, Unsigned

LEMMA Remainder ==
    ASSUME NEW n \in Int
    PROVE  /\ n % Modulus \in 0..(Modulus - 1) /\ n \div Modulus \in Int
           /\ n = Modulus * (n \div Modulus) + (n % Modulus)
           /\ (n - (n % Modulus)) % Modulus = 0
<1>1. Modulus \in Nat \ {0}
  BY WidthFacts
<1> DEFINE q == n \div Modulus
           r == n % Modulus
<1>2. r \in 0..(Modulus - 1) /\ n = Modulus * q + r /\ q \in Int
  BY <1>1
<1>. HIDE DEF q, r
<1>3. n - r = Modulus * q /\ n - r \in Int
  BY <1>1, <1>2
<1>4. (n - r) % Modulus = 0
  BY <1>1, <1>2, <1>3, QuotientUnique
<1>. QED
  BY <1>2, <1>4 DEF q, r

(* Integers: unsigned ones wrap, and an int that does not fit is undefined.  *)
LEMMA ResultIs ==
    ASSUME NEW t \in Integral, NEW n \in Int
    PROVE  LET outcome == Result(t, n) IN
           /\ outcome[1] \in {"value", "undefined"}
           /\ outcome[1] = "value" => /\ outcome[2] \in NumbersOf(t)
                                      /\ Same(t, <<n, 1>>, outcome[2])
           /\ outcome[1] = "undefined" => t = "int" /\ n \notin Ints
<1>1. CASE t \in Unsigned
  <2>1. Result(t, n) = Value(<<n % Modulus, 1>>)
    BY <1>1 DEF Result, Wrapped
  <2>2. <<n % Modulus, 1>> \in NumbersOf(t)
    <3> DEFINE r == n % Modulus
    <3>1. r \in 0..(Modulus - 1)
      BY Remainder
    <3>. HIDE DEF r
    <3>2. <<r, 1>> \in NumbersOf(t)
      BY <1>1, <3>1 DEF NumbersOf, Unsigned
    <3>. QED
      BY <3>2 DEF r
  <2>3. Same(t, <<n, 1>>, <<n % Modulus, 1>>)
    <3>1. (n - (n % Modulus)) % Modulus = 0
      BY Remainder
    <3>. QED
      BY <1>1, <3>1 DEF Same
  <2>. QED
    BY <2>1, <2>2, <2>3 DEF Value
<1>2. CASE t = "int" /\ n \in Ints
  <2>1. Result(t, n) = Value(<<n, 1>>)
    BY <1>2 DEF Result, Unsigned
  <2>2. <<n, 1>> \in NumbersOf(t) /\ Same(t, <<n, 1>>, <<n, 1>>)
    BY <1>2 DEF NumbersOf, Same, Unsigned
  <2>. QED
    BY <2>1, <2>2 DEF Value
<1>3. CASE t = "int" /\ n \notin Ints
  <2>1. Result(t, n) = Undefined
    BY <1>3 DEF Result, Unsigned
  <2>. QED
    BY <1>3, <2>1 DEF Undefined
<1>. QED
  BY <1>1, <1>2, <1>3 DEF Integral, Unsigned

LEMMA IntegralIs == \A t \in AllTypes : t # "rational" <=> t \in Integral
BY DEF AllTypes, Integral

(* Rationals: a value is equal to the fraction computed, and undefined is    *)
(* what does not fit.                                                        *)
LEMMA RationalOf ==
    ASSUME NEW n \in Int, NEW d \in Int \ {0}
    PROVE  LET outcome == Rational(n, d) IN
           /\ outcome[1] \in {"value", "undefined"}
           /\ outcome[1] = "value" => /\ outcome[2] \in NumbersOf("rational")
                                      /\ Same("rational", <<n, d>>, outcome[2])
           /\ outcome[1] = "undefined" => ~({n, d} \subseteq Ints \ {MIN})
<1>1. ASSUME NEW f \in Fractions PROVE f \in NumbersOf("rational") /\ f[1] \in Int /\ f[2] \in Int
  BY <1>1, WidthFacts DEF NumbersOf, Unsigned, Fractions
<1>. QED
  BY <1>1, RationalIs DEF Same, Unsigned

(* Addition and subtraction give the exact number, or it does not fit.       *)
IsSum(t, a, sign, b, outcome) ==
    LET x == <<a[1] * b[2] + sign * (b[1] * a[2]), a[2] * b[2]>> IN
    /\ outcome[1] \in {"value", "undefined"}
    /\ outcome[1] = "value" => outcome[2] \in NumbersOf(t) /\ Same(t, x, outcome[2])
    /\ outcome[1] = "undefined" =>
           \/ t = "int" /\ x[1] \notin Ints
           \/ /\ t = "rational"
              /\ ~({x[1], x[2], a[1] * b[2], b[1] * a[2]} \subseteq Ints \ {MIN})

LEMMA SumIs ==
    ASSUME NEW t \in AllTypes, NEW a \in NumbersOf(t), NEW b \in NumbersOf(t),
           NEW sign \in {1, -1}
    PROVE  IsSum(t, a, sign, b, Sum(t, a, sign, b))
<1>. USE DEF IsSum
<1> DEFINE p == a[1] * b[2]
           q == b[1] * a[2]
           x == <<p + sign * q, a[2] * b[2]>>
<1>0. /\ a[1] \in Int /\ a[2] \in Nat \ {0} /\ b[1] \in Int /\ b[2] \in Nat \ {0}
      /\ p \in Int /\ q \in Int /\ a[2] * b[2] \in Nat \ {0} /\ p + sign * q \in Int
      /\ a[1] + sign * b[1] \in Int
  <2>1. /\ a[1] \in Int /\ a[2] \in Nat \ {0} /\ b[1] \in Int /\ b[2] \in Nat \ {0}
    BY NumberIs
  <2>2. a[2] * b[2] \in Nat \ {0}
    BY <2>1
  <2>3. p \in Int /\ q \in Int
    BY <2>1
  <2>. HIDE DEF p, q
  <2>. QED
    BY <2>1, <2>2, <2>3
<1>1. CASE t # "rational"
  <2>1. t \in Integral /\ a[2] = 1 /\ b[2] = 1
    BY <1>1, IntegralIs, NumberIs DEF Integral, Unsigned
  <2>2. Sum(t, a, sign, b) = Result(t, a[1] + sign * b[1])
    BY <1>1 DEF Sum
  <2>3. x = <<a[1] + sign * b[1], 1>>
    BY <1>0, <2>1
  <2>4. x[1] = a[1] + sign * b[1]
    BY <2>3
  <2>. HIDE DEF x
  <2>. QED
    BY <1>0, <2>1, <2>2, <2>3, <2>4, ResultIs DEF x
<1>2. CASE t = "rational" /\ a[2] = b[2]
  <2>1. Sum(t, a, sign, b) = Rational(a[1] + sign * b[1], a[2])
    BY <1>2 DEF Sum
  <2>2. p + sign * q = (a[1] + sign * b[1]) * a[2]
    BY <1>0, <1>2
  <2> DEFINE n == a[1] + sign * b[1]
             outcome == Rational(n, a[2])
  <2>3. /\ outcome[1] \in {"value", "undefined"}
        /\ outcome[1] = "value" => /\ outcome[2] \in NumbersOf("rational")
                                   /\ Same("rational", <<n, a[2]>>, outcome[2])
        /\ outcome[1] = "undefined" => ~({n, a[2]} \subseteq Ints \ {MIN})
    BY <1>0, RationalOf
  <2>4. ASSUME outcome[1] = "value" PROVE Same("rational", x, outcome[2])
    <3>1. outcome[2][1] \in Int /\ outcome[2][2] \in Int
      BY <2>3, <2>4, NumberIs DEF AllTypes
    <3>2. n * outcome[2][2] = outcome[2][1] * a[2]
      BY <2>3, <2>4 DEF Same, Unsigned
    <3>3. x[1] = n * a[2] /\ x[2] = a[2] * a[2]
      BY <1>2, <2>2
    <3>. HIDE DEF outcome, n, x
    <3>4. (n * a[2]) * outcome[2][2] = outcome[2][1] * (a[2] * a[2])
      <4>1. (n * a[2]) * outcome[2][2] = (n * outcome[2][2]) * a[2]
        BY <1>0, <3>1 DEF n
      <4>2. outcome[2][1] * (a[2] * a[2]) = (outcome[2][1] * a[2]) * a[2]
        BY <1>0, <3>1
      <4>. QED
        BY <3>2, <4>1, <4>2
    <3>. QED
      BY <3>3, <3>4 DEF Same, Unsigned
  <2>5. ASSUME outcome[1] = "undefined" PROVE x[1] \notin Ints \ {MIN}
    <3>1. a[2] \in Ints \ {MIN}
      BY <1>2, NumberIs, WidthFacts
    <3>2. n \notin Ints \ {MIN}
      BY <2>3, <2>5, <3>1
    <3>3. Abs(n) > MAX
      BY <1>0, <3>2, WidthFacts DEF Abs
    <3>4. Abs(n) <= Abs(n * a[2]) /\ n * a[2] \in Int
      <4>1. n * a[2] = a[2] * n /\ n * a[2] \in Int /\ n \in Int
        BY <1>0
      <4>. HIDE DEF n
      <4>. QED
        BY <1>0, <4>1, QuotientAtMost
    <3>5. x[1] = n * a[2]
      BY <2>2
    <3>6. Abs(n * a[2]) > MAX
      BY <1>0, <3>3, <3>4, WidthFacts, AbsIs
    <3>. HIDE DEF n, x
    <3>. QED
      BY <3>4, <3>5, <3>6, WidthFacts DEF Abs
  <2>. HIDE DEF outcome, x
  <2>. QED
    BY <1>2, <2>1, <2>3, <2>4, <2>5 DEF outcome, x
<1>3. CASE t = "rational" /\ a[2] # b[2] /\ {p, q} \subseteq Ints
  <2>1. Sum(t, a, sign, b) = Rational(p + sign * q, a[2] * b[2])
    BY <1>3 DEF Sum
  <2>. HIDE DEF p, q
  <2>. QED
    BY <1>0, <1>3, <2>1, RationalOf DEF p, q
<1>4. CASE t = "rational" /\ a[2] # b[2] /\ ~({p, q} \subseteq Ints)
  <2>1. Sum(t, a, sign, b) = Undefined
    BY <1>4 DEF Sum
  <2>. HIDE DEF p, q
  <2>2. ~({x[1], x[2], p, q} \subseteq Ints \ {MIN})
    BY <1>4
  <2>. QED
    BY <1>4, <2>1, <2>2 DEF Undefined, p, q
<1>. QED
  BY <1>1, <1>2, <1>3, <1>4

(* So does multiplication.                                                   *)
LEMMA MulIs ==
    ASSUME NEW t \in AllTypes, NEW a \in NumbersOf(t), NEW b \in NumbersOf(t)
    PROVE  LET outcome == Mul(t, a, b)
               x == <<a[1] * b[1], a[2] * b[2]>>
           IN /\ outcome[1] \in {"value", "undefined"}
              /\ outcome[1] = "value" => outcome[2] \in NumbersOf(t) /\ Same(t, x, outcome[2])
              /\ outcome[1] = "undefined" =>
                     \/ t = "int" /\ x[1] \notin Ints
                     \/ t = "rational" /\ ~({x[1], x[2]} \subseteq Ints \ {MIN})
<1>1. /\ a[1] \in Int /\ a[2] \in Nat \ {0} /\ b[1] \in Int /\ b[2] \in Nat \ {0}
  BY NumberIs
<1>2. a[1] * b[1] \in Int /\ a[2] * b[2] \in Int \ {0}
  BY <1>1
<1>3. CASE t # "rational"
  <2>1. t \in Integral /\ a[2] = 1 /\ b[2] = 1
    BY <1>3, IntegralIs, NumberIs DEF Integral, Unsigned
  <2>2. Mul(t, a, b) = Result(t, a[1] * b[1])
    BY <1>3 DEF Mul
  <2>3. a[2] * b[2] = 1
    BY <2>1
  <2> DEFINE n == a[1] * b[1]
  <2>. HIDE DEF n
  <2>4. n \in Int
    BY <1>2 DEF n
  <2>. QED
    BY <2>1, <2>2, <2>3, <2>4, ResultIs DEF n
<1>4. CASE t = "rational"
  <2>1. Mul(t, a, b) = Rational(a[1] * b[1], a[2] * b[2])
    BY <1>4 DEF Mul
  <2> DEFINE n == a[1] * b[1]
             d == a[2] * b[2]
  <2>. HIDE DEF n, d
  <2>2. n \in Int /\ d \in Int \ {0}
    BY <1>2 DEF n, d
  <2>. QED
    BY <1>4, <2>1, <2>2, RationalOf DEF n, d
<1>. QED
  BY <1>3, <1>4

(* Zero is the only number of its type with the numerator zero.              *)
LEMMA ZeroIs ==
    ASSUME NEW t \in AllTypes, NEW b \in NumbersOf(t)
    PROVE  b[1] = 0 <=> b = Zero
<1>1. ASSUME b[1] = 0 PROVE b[2] = 1
  <2>1. CASE t = "rational"
    <3> DEFINE d == b[2]
    <3>1. d \in Nat \ {0} /\ Gcd(0, d) = 1
      BY <1>1, <2>1, NumberIs
    <3>. HIDE DEF d
    <3>2. Divides(d, 0) /\ Divides(d, d)
      BY <3>1, QuotientUnique DEF Divides
    <3>3. Abs(d) = d /\ 0 \in Int /\ d \in Int \ {0}
      BY <3>1 DEF Abs
    <3>4. \A h \in Nat : h > 1 /\ h <= d => ~(Divides(h, 0) /\ Divides(h, d))
      BY <3>1, <3>3, GcdIs
    <3>5. ~(d > 1)
      BY <3>1, <3>2, <3>4
    <3>. QED
      BY <3>1, <3>5 DEF d
  <2>2. CASE t # "rational"
    BY <2>2, NumberIs DEF AllTypes, Unsigned
  <2>. QED
    BY <2>1, <2>2
<1>. QED
  BY <1>1, NumberIs DEF Zero

LEMMA TruncatedIs ==
    ASSUME NEW n \in Int, NEW d \in Int \ {0}
    PROVE  Truncated(n, d) \in Int
<1>1. Abs(n) \in Nat /\ Abs(d) \in Nat \ {0}
  BY AbsIs
<1>2. Abs(n) \div Abs(d) \in Int
  BY <1>1
<1>. QED
  BY <1>2 DEF Truncated

(* Division by zero is an error; any other is exact, or does not fit.        *)
LEMMA DivIs ==
    ASSUME NEW t \in AllTypes, NEW a \in NumbersOf(t), NEW b \in NumbersOf(t)
    PROVE  LET outcome == Div(t, a, b)
               x == IF t = "rational" THEN <<a[1] * b[2], a[2] * b[1]>>
                    ELSE <<Truncated(a[1], b[1]), 1>>
           IN /\ outcome[1] \in {"value", "undefined", "error"}
              /\ outcome[1] = "error" <=> b = Zero
              /\ outcome[1] = "value" => outcome[2] \in NumbersOf(t) /\ Same(t, x, outcome[2])
              /\ outcome[1] = "undefined" =>
                     \/ t = "int" /\ x[1] \notin Ints
                     \/ t = "rational" /\ ~({x[1], x[2]} \subseteq Ints \ {MIN})
<1>1. /\ a[1] \in Int /\ a[2] \in Nat \ {0} /\ b[1] \in Int /\ b[2] \in Nat \ {0}
  BY NumberIs
<1>2. CASE b = Zero
  BY <1>2 DEF Div, Error
<1>3. CASE b # Zero /\ t # "rational"
  <2> DEFINE n == Truncated(a[1], b[1])
  <2>1. n \in Int
    BY <1>1, <1>3, ZeroIs, TruncatedIs
  <2>2. t \in Integral
    BY <1>3, IntegralIs
  <2>3. Div(t, a, b) = Result(t, n)
    BY <1>3 DEF Div
  <2>. HIDE DEF n
  <2>. QED
    BY <1>3, <2>1, <2>2, <2>3, ResultIs DEF n
<1>4. CASE b # Zero /\ t = "rational"
  <2> DEFINE n == a[1] * b[2]
             d == a[2] * b[1]
  <2>1. b[1] # 0
    BY <1>4, ZeroIs
  <2>2. n \in Int /\ d \in Int \ {0}
    <3>1. b[1] >= 1 => a[2] * b[1] >= 1
      BY <1>1
    <3>2. b[1] <= -1 => a[2] * b[1] <= -1
      BY <1>1
    <3>. QED
      BY <1>1, <2>1, <3>1, <3>2
  <2>3. Div(t, a, b) = Rational(n, d)
    BY <1>4 DEF Div
  <2>. HIDE DEF n, d
  <2>. QED
    BY <1>4, <2>2, <2>3, RationalOf DEF n, d
<1>. QED
  BY <1>2, <1>3, <1>4

LEMMA NegateIs ==
    ASSUME NEW t \in AllTypes, NEW a \in NumbersOf(t), Negate(t, a)[1] = "value"
    PROVE  Negate(t, a)[2] \in NumbersOf(t)
<1>1. a[1] \in Int /\ a[2] \in Nat \ {0} /\ -a[1] \in Int
  BY NumberIs
<1>2. CASE t # "rational"
  <2>1. t \in Integral /\ Negate(t, a) = Result(t, -a[1])
    BY <1>2, IntegralIs DEF Negate
  <2> DEFINE n == -a[1]
  <2>. HIDE DEF n
  <2>2. n \in Int
    BY <1>1 DEF n
  <2>3. Negate(t, a) = Result(t, n)
    BY <2>1 DEF n
  <2>4. Result(t, n)[1] = "value" => Result(t, n)[2] \in NumbersOf(t)
    BY <2>1, <2>2, ResultIs
  <2>. QED
    BY <2>3, <2>4
<1>3. CASE t = "rational"
  <2>1. Negate(t, a) = Rational(-a[1], a[2]) /\ a[2] \in Int \ {0}
    BY <1>1, <1>3 DEF Negate
  <2>. QED
    BY <1>1, <1>3, <2>1, RationalOf
<1>. QED
  BY <1>2, <1>3

-----------------------------------------------------------------------------
(* FromString: what was typed is read as a number of the type.               *)

LEMMA ValueOfIs ==
    ASSUME NEW c \in DigitChars
    PROVE  ValueOf(c) \in 0..9
<1>1. PICK i \in 1..10 : Digits[i] = c
  BY DEF DigitChars
<1>2. i - 1 \in 0..9 /\ Digits[(i - 1) + 1] = c
  BY <1>1
<1>3. \E d \in 0..9 : Digits[d + 1] = c
  BY <1>2
<1>. QED
  BY <1>3 DEF ValueOf

(* Reading the first k characters, in terms of the first k - 1.              *)
LEMMA ReadUpToIs ==
    ASSUME NEW s, Len(s) \in Nat
    PROVE  /\ ReadUpTo(s)[0] = 0
           /\ \A k \in 1..Len(s) :
                  ReadUpTo(s)[k] = IF s[k] \in DigitChars
                                   THEN 10 * ReadUpTo(s)[k - 1] + ValueOf(s[k])
                                   ELSE ReadUpTo(s)[k - 1]
           /\ \A k \in 0..Len(s) : ReadUpTo(s)[k] \in Nat
<1> DEFINE n == Len(s)
           step == [x \in (0..n) \X Nat |->
                       IF s[x[1]] \in DigitChars THEN 10 * x[2] + ValueOf(s[x[1]]) ELSE x[2]]
           Solves(f) == f = [k \in 0..Len(s) |->
                               IF k = 0 THEN 0
                               ELSE IF s[k] \in DigitChars THEN 10 * f[k - 1] + ValueOf(s[k])
                               ELSE f[k - 1]]
<1>1. step \in [(0..n) \X Nat -> Nat]
  BY ValueOfIs
<1>2. \A k \in 0..n, v \in Nat :
          step[<<k, v>>] = IF s[k] \in DigitChars THEN 10 * v + ValueOf(s[k]) ELSE v
  OBVIOUS
<1>3. PICK f \in [0..n -> Nat] :
          f[0] = 0 /\ \A k \in 1..n : f[k] = step[<<k, f[k - 1]>>]
  <2>1. IsStep(step, n, Nat) /\ n \in Nat
    BY <1>1 DEF IsStep
  <2>. HIDE DEF step, n
  <2>2. \E f : Recurs(f, n, Nat, 0, step)
    BY <2>1, RecursionExists
  <2>. QED
    BY <2>2 DEF Recurs
<1>4. Solves(f)
  <2>. HIDE DEF step
  <2>1. \A k \in 1..n : k \in 0..n /\ k - 1 \in 0..n /\ f[k - 1] \in Nat
    BY <1>3
  <2>2. \A k \in 1..n :
            f[k] = IF s[k] \in DigitChars THEN 10 * f[k - 1] + ValueOf(s[k]) ELSE f[k - 1]
    BY <1>2, <1>3, <2>1
  <2>3. \A k \in 0..n : k = 0 \/ k \in 1..n
    OBVIOUS
  <2>4. f = [k \in 0..n |-> f[k]]
    BY <1>3
  <2>. QED
    BY <1>3, <2>2, <2>3, <2>4
<1>5. ReadUpTo(s) = CHOOSE g : Solves(g)
  BY DEF ReadUpTo
<1>6. Solves(ReadUpTo(s))
  <2>. HIDE DEF Solves
  <2>. QED
    BY <1>4, <1>5
<1> DEFINE r == ReadUpTo(s)
<1>. HIDE DEF r
<1>7. /\ r[0] = 0
      /\ \A k \in 1..n : r[k] = IF s[k] \in DigitChars THEN 10 * r[k - 1] + ValueOf(s[k])
                                ELSE r[k - 1]
  BY <1>6 DEF r
<1>8. \A k \in 0..n : r[k] \in Nat
  <2> DEFINE natural == {k \in 0..n : r[k] \in Nat}
  <2>1. 0 \in natural
    BY <1>7
  <2>2. ASSUME NEW k \in 0..n, k < n, k \in natural PROVE k + 1 \in natural
    <3>1. k + 1 \in 1..n /\ (k + 1) - 1 = k
      BY <2>2
    <3>2. r[k + 1] = IF s[k + 1] \in DigitChars THEN 10 * r[k] + ValueOf(s[k + 1]) ELSE r[k]
      BY <1>7, <3>1
    <3>3. r[k] \in Nat
      BY <2>2
    <3>4. r[k + 1] \in Nat
      <4>1. CASE s[k + 1] \in DigitChars
        <5>1. ValueOf(s[k + 1]) \in 0..9
          BY <4>1, ValueOfIs
        <5>. QED
          BY <3>2, <3>3, <4>1, <5>1
      <4>. QED
        BY <3>2, <3>3, <4>1
    <3>. QED
      BY <3>1, <3>4
  <2>3. \A k \in 0..n : k \in natural
    <3>. HIDE DEF natural
    <3>. QED
      BY <2>1, <2>2, Climb
  <2>. QED
    BY <2>3
<1>. QED
  BY <1>7, <1>8 DEF r

LEMMA MagnitudeIs ==
    ASSUME NEW s, Len(s) \in Nat
    PROVE  Magnitude(s) \in Nat /\ (~HasDigits(s) => Magnitude(s) = 0)
<1>1. Magnitude(s) \in Nat
  BY ReadUpToIs DEF Magnitude
<1>2. ASSUME ~HasDigits(s) PROVE Magnitude(s) = 0
  <2> DEFINE n == Len(s)
             r == ReadUpTo(s)
             nil == {k \in 0..n : r[k] = 0}
  <2>. HIDE DEF r
  <2>1. r[0] = 0 /\ \A k \in 1..n : r[k] = r[k - 1]
    BY <1>2, ReadUpToIs DEF r, HasDigits
  <2>2. 0 \in nil
    BY <2>1
  <2>3. ASSUME NEW k \in 0..n, k < n, k \in nil PROVE k + 1 \in nil
    BY <2>1, <2>3
  <2>4. \A k \in 0..n : k \in nil
    <3>. HIDE DEF nil
    <3>. QED
      BY <2>2, <2>3, Climb
  <2>. QED
    BY <2>4 DEF Magnitude, r
<1>. QED
  BY <1>1, <1>2

LEMMA MeantIs ==
    ASSUME NEW s, Len(s) \in Nat
    PROVE  /\ Meant(s) \in Int /\ (~HasDigits(s) => Meant(s) = 0)
           /\ Meant(s) = Magnitude(s) \/ (IsNegative(s) /\ Meant(s) = -Magnitude(s))
BY MagnitudeIs DEF Meant

(* What may be typed of a number of this type.                               *)
CharsOf(t) == DigitChars \cup {"-"} \cup (IF t = "rational" THEN {"/"} ELSE {})

(* The parts of a text are made of its characters.                           *)
LEMMA PartsAre ==
    ASSUME NEW C, NEW s \in Seq(C)
    PROVE  /\ Upper(s) \in Seq(C) /\ Lower(s) \in Seq(C)
           /\ \A i \in 1..Len(Upper(s)) : \E j \in 1..Len(s) : Upper(s)[i] = s[j]
<1>1. CASE Slashes(s) = {}
  <2>1. Upper(s) = s /\ Lower(s) = <<>>
    BY <1>1 DEF Upper, Lower
  <2>2. <<>> \in Seq(C)
    BY EmptySeq
  <2>. QED
    BY <2>1, <2>2
<1>2. CASE Slashes(s) # {}
  <2> DEFINE i == CHOOSE j \in Slashes(s) : TRUE
  <2>1. i \in 1..Len(s)
    <3>1. i \in Slashes(s)
      BY <1>2
    <3>. HIDE DEF i
    <3>. QED
      BY <3>1 DEF Slashes
  <2>2. Upper(s) = SubSeq(s, 1, i - 1) /\ Lower(s) = SubSeq(s, i + 1, Len(s))
    BY <1>2 DEF Upper, Lower
  <2>. HIDE DEF i
  <2>3. Len(s) \in Nat
    BY LenProperties
  <2>4. SubSeq(s, 1, i - 1) \in Seq(C)
    BY <2>1, <2>3, SubSeqProperties
  <2>5. SubSeq(s, i + 1, Len(s)) \in Seq(C)
    BY <2>1, <2>3, SubSeqProperties
  <2>6. Len(SubSeq(s, 1, i - 1)) = i - 1 /\ \A k \in 1..(i - 1) : SubSeq(s, 1, i - 1)[k] = s[k]
    BY <2>1, <2>3, SubSeqProperties
  <2>7. \A k \in 1..Len(Upper(s)) : k \in 1..Len(s) /\ Upper(s)[k] = s[k]
    BY <2>1, <2>2, <2>3, <2>6
  <2>. QED
    BY <2>2, <2>4, <2>5, <2>7
<1>. QED
  BY <1>1, <1>2

LEMMA ZeroIsNumber ==
    \A t \in AllTypes : Zero \in NumbersOf(t)
<1>1. 0 \in Ints \ {MIN} /\ 1 \in 1..MAX /\ 0 \in 0..(Modulus - 1)
  BY WidthFacts
<1>2. Gcd(0, 1) = 1
  <2>1. Gcd(0, 1) \in 1..Abs(1) /\ Abs(1) = 1
    BY GcdIs DEF Abs
  <2>. QED
    BY <2>1
<1>3. Zero \in Fractions
  BY <1>1, <1>2 DEF Zero, Fractions
<1>. QED
  BY <1>1, <1>3 DEF Zero, NumbersOf, AllTypes, Unsigned

(* What operator>> reads into an unsigned type fits it.                      *)
LEMMA ReadUnsignedIs ==
    ASSUME NEW limit \in Nat \ {0}, NEW s, Len(s) \in Nat
    PROVE  ReadUnsigned(limit, s) \in 0..(limit - 1)
<1> DEFINE m == IF IsNegative(s) THEN -Magnitude(s) ELSE Magnitude(s)
<1>1. m \in Int
  BY MagnitudeIs
<1>2. m % limit \in 0..(limit - 1)
  <2>. HIDE DEF m
  <2>. QED
    BY <1>1
<1>. QED
  BY <1>2 DEF ReadUnsigned

(* Whatever is typed, the number read is one of the type.                    *)
LEMMA FromStringIs ==
    ASSUME NEW t \in AllTypes, NEW s \in Seq(CharsOf(t)), FromString(t, s)[1] = "value"
    PROVE  FromString(t, s)[2] \in NumbersOf(t)
<1>0. Len(s) \in Nat /\ Modulus \in Nat \ {0}
  BY LenProperties, WidthFacts
<1>1. CASE t = "byte"
  <2>1. Modulus * Modulus \in Nat \ {0}
    BY <1>0
  <2>2. ReadUnsigned(Modulus * Modulus, s) \in Int
    BY <1>0, <2>1, ReadUnsignedIs
  <2> DEFINE r == ReadUnsigned(Modulus * Modulus, s) % Modulus
  <2>3. r \in 0..(Modulus - 1)
    BY <1>0, <2>2, Remainder
  <2>4. FromString(t, s) = Value(<<r, 1>>)
    BY <1>1 DEF FromString, Wrapped
  <2>. HIDE DEF r
  <2>. QED
    BY <1>1, <2>3, <2>4 DEF Value, NumbersOf, Unsigned
<1>2. CASE t = "size"
  <2>1. ReadUnsigned(Modulus, s) \in 0..(Modulus - 1)
    BY <1>0, ReadUnsignedIs
  <2>2. FromString(t, s) = Value(<<ReadUnsigned(Modulus, s), 1>>)
    BY <1>2 DEF FromString
  <2>. QED
    BY <1>2, <2>1, <2>2 DEF Value, NumbersOf, Unsigned
<1>3. CASE t = "int"
  <2>1. ReadSigned(s) \in Ints
    BY <1>0, MeantIs, WidthFacts DEF ReadSigned
  <2>2. FromString(t, s) = Value(<<ReadSigned(s), 1>>)
    BY <1>3 DEF FromString
  <2>. QED
    BY <1>3, <2>1, <2>2 DEF Value, NumbersOf, Unsigned
<1>4. CASE t = "rational"
  <2>1. FromString(t, s) = ReadRational(s)
    BY <1>4 DEF FromString
  <2>2. CASE ReadRational(s) = Value(Zero)
    BY <2>1, <2>2, ZeroIsNumber DEF Value
  <2>3. CASE ReadRational(s) = Rational(Meant(s), 1)
    <3> DEFINE n == Meant(s)
    <3>1. n \in Int /\ 1 \in Int \ {0}
      BY <1>0, MeantIs
    <3>. HIDE DEF n
    <3>2. Rational(n, 1)[1] = "value" => Rational(n, 1)[2] \in NumbersOf("rational")
      BY <3>1, RationalOf
    <3>. QED
      BY <1>4, <2>1, <2>3, <3>2 DEF n
  <2>4. CASE /\ ReadRational(s) = Rational(Meant(Upper(s)), Meant(Lower(s)))
             /\ Meant(Lower(s)) # 0
    <3>1. Len(Upper(s)) \in Nat /\ Len(Lower(s)) \in Nat
      BY PartsAre, LenProperties
    <3>2. Meant(Upper(s)) \in Int /\ Meant(Lower(s)) \in Int \ {0}
      BY <2>4, <3>1, MeantIs
    <3>. QED
      BY <1>4, <2>1, <2>4, <3>2, RationalOf
  <2>. QED
    BY <2>2, <2>3, <2>4 DEF ReadRational
<1>. QED
  BY <1>1, <1>2, <1>3, <1>4 DEF AllTypes

(* Only the window of rationals has a key for "/".                           *)
LEMMA IntegersHaveNoSlash ==
    ASSUME NEW t \in AllTypes, t # "rational", NEW s \in Seq(CharsOf(t))
    PROVE  Slashes(s) = {} /\ Upper(s) = s /\ Spelled(s) = <<Meant(s), 1>>
<1>1. "/" \notin DigitChars
  BY DEF DigitChars, Digits
<1>2. \A i \in 1..Len(s) : s[i] \in DigitChars \cup {"-"}
  BY ElementOfSeq, LenProperties DEF CharsOf
<1>3. Slashes(s) = {}
  BY <1>1, <1>2 DEF Slashes
<1>. QED
  BY <1>3 DEF Upper, Spelled

(* A number that fits is read as it is spelled.                              *)
LEMMA UnsignedReadAsMeant ==
    ASSUME NEW limit \in Nat \ {0}, NEW s, Len(s) \in Nat, Meant(s) \in 0..(limit - 1)
    PROVE  ReadUnsigned(limit, s) = Meant(s)
<1>1. Magnitude(s) \in Nat
  BY MagnitudeIs
<1>2. Magnitude(s) < limit
  BY <1>1 DEF Meant
<1>3. Meant(s) % limit = Meant(s)
  <2> DEFINE m == Meant(s)
  <2>1. m \in 0..(limit - 1)
    OBVIOUS
  <2>. HIDE DEF m
  <2>2. m % limit = m
    BY <2>1
  <2>. QED
    BY <2>2 DEF m
<1>. QED
  BY <1>1, <1>2, <1>3 DEF ReadUnsigned, Meant

(* The number read is the one spelled, if that fits the type, and zero if    *)
(* there is no digit.                                                        *)
LEMMA ReadIsSpelled ==
    ASSUME NEW t \in AllTypes, NEW s \in Seq(CharsOf(t)), FromString(t, s)[1] = "value"
    PROVE  LET m == FromString(t, s)[2] IN
           /\ Fitting(t, s) => m[1] * Spelled(s)[2] = Spelled(s)[1] * m[2]
           /\ ~HasDigits(s) => m = Zero
<1>0. Len(s) \in Nat /\ Modulus \in Nat \ {0}
  BY LenProperties, WidthFacts
<1>1. CASE t \in Unsigned
  <2>1. ASSUME Meant(s) \in 0..(Modulus - 1) PROVE FromString(t, s) = Value(<<Meant(s), 1>>)
    <3>1. ReadUnsigned(Modulus, s) = Meant(s)
      BY <1>0, <2>1, UnsignedReadAsMeant
    <3>2. ReadUnsigned(Modulus * Modulus, s) = Meant(s)
      <4> DEFINE square == Modulus * Modulus
      <4>1. square \in Nat \ {0} /\ square >= Modulus
        BY <1>0
      <4>. HIDE DEF square
      <4>2. Meant(s) \in 0..(square - 1)
        BY <1>0, <2>1, <4>1
      <4>3. ReadUnsigned(square, s) = Meant(s)
        BY <1>0, <4>1, <4>2, UnsignedReadAsMeant
      <4>. QED
        BY <4>3 DEF square
    <3> DEFINE m == Meant(s)
    <3>3. m \in 0..(Modulus - 1)
      BY <2>1
    <3>. HIDE DEF m
    <3>4. m % Modulus = m
      BY <1>0, <3>3
    <3>. QED
      BY <1>1, <3>1, <3>2, <3>4 DEF FromString, Wrapped, Unsigned, m
  <2>2. ASSUME Fitting(t, s) PROVE Meant(s) \in 0..(Modulus - 1) /\ Spelled(s) = <<Meant(s), 1>>
    <3>1. Spelled(s) = <<Meant(s), 1>>
      BY <1>1, IntegersHaveNoSlash DEF Unsigned
    <3>2. Spelled(s) \in NumbersOf(t)
      BY <1>1, <2>2 DEF Fitting, Unsigned
    <3>. QED
      BY <1>1, <3>1, <3>2, NumberIs
  <2>3. ASSUME ~HasDigits(s) PROVE Meant(s) = 0
    BY <1>0, <2>3, MeantIs
  <2>4. ASSUME ~HasDigits(s) PROVE FromString(t, s)[2] = Zero
    <3>1. 0 \in 0..(Modulus - 1)
      BY <1>0
    <3>. QED
      BY <2>1, <2>3, <2>4, <3>1 DEF Value, Zero
  <2>5. ASSUME Fitting(t, s)
        PROVE  FromString(t, s)[2][1] * Spelled(s)[2] = Spelled(s)[1] * FromString(t, s)[2][2]
    BY <2>1, <2>2, <2>5 DEF Value
  <2>. QED
    BY <2>4, <2>5
<1>2. CASE t = "int"
  <2>1. FromString(t, s)[2] = <<ReadSigned(s), 1>>
    BY <1>2 DEF FromString, Value
  <2>2. ASSUME Fitting(t, s) PROVE ReadSigned(s) = Meant(s) /\ Spelled(s) = <<Meant(s), 1>>
    <3>1. Spelled(s) = <<Meant(s), 1>>
      BY <1>2, IntegersHaveNoSlash
    <3>2. Spelled(s) \in NumbersOf(t)
      BY <1>2, <2>2 DEF Fitting
    <3>3. Meant(s) \in Ints
      BY <1>2, <3>1, <3>2, NumberIs
    <3>. QED
      BY <3>1, <3>3, WidthFacts DEF ReadSigned
  <2>3. ASSUME ~HasDigits(s) PROVE ReadSigned(s) = 0
    BY <1>0, <2>3, MeantIs, WidthFacts DEF ReadSigned
  <2>4. ReadSigned(s) \in Int
    BY <1>0, MeantIs, WidthFacts DEF ReadSigned
  <2>. QED
    BY <2>1, <2>2, <2>3, <2>4 DEF Zero
<1>3. CASE t = "rational"
  <2>1. FromString(t, s) = ReadRational(s)
    BY <1>3 DEF FromString
  <2>2. Len(Upper(s)) \in Nat /\ Len(Lower(s)) \in Nat
    BY PartsAre, LenProperties
  <2>3. ASSUME ~HasDigits(s) PROVE FromString(t, s)[2] = Zero
    <3>1. ~HasDigits(Upper(s))
      BY <2>3, PartsAre DEF HasDigits
    <3>2. ReadRational(s) = Value(Zero)
      BY <3>1 DEF ReadRational, Fails
    <3>. QED
      BY <2>1, <3>2 DEF Value
  <2>4. ASSUME Fitting(t, s)
        PROVE  FromString(t, s)[2][1] * Spelled(s)[2] = Spelled(s)[1] * FromString(t, s)[2][2]
    <3> DEFINE n == Spelled(s)[1]
               d == Spelled(s)[2]
    <3>1. n \in Ints /\ d \in Ints /\ d # 0 /\ HasDigits(Upper(s))
      BY <1>3, <2>4 DEF Fitting
    <3>2. n = Meant(Upper(s)) /\ ~Fails(Upper(s))
      BY <3>1 DEF Spelled, Fails
    <3>3. ReadRational(s) = Rational(n, d)
      <4>1. CASE Slashes(s) = {}
        BY <3>2, <4>1 DEF ReadRational, Spelled, Upper
      <4>2. CASE Slashes(s) # {}
        <5>1. d = Meant(Lower(s))
          BY <4>2 DEF Spelled
        <5>2. HasDigits(Lower(s))
          BY <2>2, <3>1, <5>1, MeantIs
        <5>3. ~Fails(Lower(s)) /\ Meant(Lower(s)) # 0
          BY <3>1, <5>1, <5>2 DEF Fails
        <5>. QED
          BY <3>2, <4>2, <5>1, <5>3 DEF ReadRational
      <4>. QED
        BY <4>1, <4>2
    <3>4. n \in Int /\ d \in Int \ {0}
      BY <3>1, WidthFacts
    <3>. HIDE DEF n, d
    <3>5. Rational(n, d)[1] = "value" =>
              Rational(n, d)[2][1] * d = n * Rational(n, d)[2][2]
      BY <3>4, RationalIs
    <3>. QED
      BY <2>1, <3>3, <3>5 DEF n, d
  <2>. QED
    BY <2>3, <2>4
<1>. QED
  BY <1>1, <1>2, <1>3 DEF AllTypes, Unsigned

-----------------------------------------------------------------------------
(* Powers: what Raised means.                                                *)

(* Multiplication as it is meant, and the numbers it is of.                  *)
Times(t, x, y) == IF t \in Unsigned THEN (x * y) % Modulus ELSE x * y
Carrier(t) == IF t \in Unsigned THEN 0..(Modulus - 1) ELSE Int

LEMMA RemainderIsUnique ==
    ASSUME NEW n \in Int, NEW q \in Int, NEW r \in 0..(Modulus - 1), n = Modulus * q + r
    PROVE  n % Modulus = r
<1>1. Modulus \in Nat \ {0}
  BY WidthFacts
<1> DEFINE p == n \div Modulus
           s == n % Modulus
<1>2. s \in 0..(Modulus - 1) /\ n = Modulus * p + s /\ p \in Int
  BY Remainder
<1>. HIDE DEF p, s
<1>3. Modulus * (p - q) = r - s
  BY <1>1, <1>2
<1>4. p - q = 0
  <2>1. CASE p - q >= 1
    <3>1. Modulus * (p - q) >= Modulus
      BY <1>1, <1>2, <2>1
    <3>. QED
      BY <1>1, <1>2, <1>3, <3>1
  <2>2. CASE p - q <= -1
    <3>1. Modulus * (q - p) >= Modulus
      BY <1>1, <1>2, <2>2
    <3>2. Modulus * (q - p) = -(Modulus * (p - q))
      BY <1>1, <1>2
    <3>. QED
      BY <1>1, <1>2, <1>3, <3>1, <3>2
  <2>. QED
    BY <1>2, <2>1, <2>2
<1>5. r - s = 0
  BY <1>1, <1>3, <1>4
<1>. QED
  BY <1>2, <1>5 DEF s

(* A factor may be reduced modulo Modulus before it is multiplied.           *)
LEMMA RemainderOfFactor ==
    ASSUME NEW x \in Int, NEW y \in Int
    PROVE  ((x % Modulus) * y) % Modulus = (x * y) % Modulus
<1> DEFINE r == x % Modulus
           q == x \div Modulus
           u == (r * y) % Modulus
           v == (r * y) \div Modulus
<1>1. r \in Int /\ q \in Int /\ x = Modulus * q + r /\ Modulus \in Nat
  BY Remainder, WidthFacts
<1>2. r * y \in Int
  BY <1>1
<1>3. u \in 0..(Modulus - 1) /\ v \in Int /\ r * y = Modulus * v + u
  BY <1>2, Remainder
<1>. HIDE DEF r, q, u, v
<1>4. x * y = Modulus * (q * y + v) + u /\ q * y + v \in Int /\ x * y \in Int
  <2>1. x * y = Modulus * (q * y) + r * y
    BY <1>1
  <2>2. Modulus * (q * y + v) = Modulus * (q * y) + Modulus * v
    BY <1>1, <1>3
  <2>3. q * y \in Int
    BY <1>1
  <2>. QED
    BY <1>1, <1>3, <2>1, <2>2, <2>3
<1>5. (x * y) % Modulus = u
  <2> DEFINE n == x * y
             c == q * y + v
  <2>1. n \in Int /\ c \in Int /\ n = Modulus * c + u
    BY <1>4
  <2>. HIDE DEF n, c
  <2>2. n % Modulus = u
    BY <1>3, <2>1, RemainderIsUnique
  <2>. QED
    BY <2>2 DEF n
<1>. QED
  BY <1>5 DEF u, r

(* Times is associative, with one for its unit.                              *)
LEMMA TimesIs ==
    ASSUME NEW t
    PROVE  /\ Carrier(t) \subseteq Int /\ 1 \in Carrier(t)
           /\ \A x, y \in Carrier(t) : Times(t, x, y) \in Carrier(t)
           /\ \A x \in Carrier(t) : Times(t, x, 1) = x /\ Times(t, 1, x) = x
           /\ \A x, y, z \in Carrier(t) :
                  Times(t, Times(t, x, y), z) = Times(t, x, Times(t, y, z))
<1>1. CASE t \in Unsigned
  <2>1. /\ Modulus \in Nat /\ Modulus >= 4
        /\ \A x, y : Times(t, x, y) = (x * y) % Modulus
        /\ Carrier(t) = 0..(Modulus - 1)
    BY <1>1, WidthFacts DEF Times, Carrier
  <2>2. Carrier(t) \subseteq Int /\ 1 \in Carrier(t)
    BY <2>1
  <2>3. ASSUME NEW x \in Carrier(t), NEW y \in Carrier(t) PROVE Times(t, x, y) \in Carrier(t)
    <3> DEFINE n == x * y
    <3>1. n \in Int
      BY <2>1
    <3>. HIDE DEF n
    <3>2. n % Modulus \in 0..(Modulus - 1)
      BY <3>1, Remainder
    <3>. QED
      BY <2>1, <3>2 DEF n
  <2>4. ASSUME NEW x \in Carrier(t) PROVE Times(t, x, 1) = x /\ Times(t, 1, x) = x
    <3>1. x * 1 = x /\ 1 * x = x /\ x % Modulus = x
      BY <2>1
    <3>. QED
      BY <2>1, <3>1
  <2>5. ASSUME NEW x \in Carrier(t), NEW y \in Carrier(t), NEW z \in Carrier(t)
        PROVE  Times(t, Times(t, x, y), z) = Times(t, x, Times(t, y, z))
    <3>1. x \in Int /\ y \in Int /\ z \in Int
      BY <2>1
    <3>2. x * y \in Int /\ y * z \in Int /\ (x * y) * z = (y * z) * x
      BY <3>1
    <3>3. (((x * y) % Modulus) * z) % Modulus = ((x * y) * z) % Modulus
      BY <3>1, <3>2, RemainderOfFactor
    <3>4. (((y * z) % Modulus) * x) % Modulus = ((y * z) * x) % Modulus
      BY <3>1, <3>2, RemainderOfFactor
    <3>5. ((y * z) % Modulus) * x = x * ((y * z) % Modulus)
      <4> DEFINE r == (y * z) % Modulus
      <4>1. r \in Int
        BY <3>2, Remainder
      <4>. HIDE DEF r
      <4>2. r * x = x * r
        BY <3>1, <4>1
      <4>. QED
        BY <4>2 DEF r
    <3>6. Times(t, Times(t, x, y), z) = (((x * y) % Modulus) * z) % Modulus
      BY <2>1
    <3>7. Times(t, x, Times(t, y, z)) = (x * ((y * z) % Modulus)) % Modulus
      BY <2>1
    <3>. QED
      BY <3>2, <3>3, <3>4, <3>5, <3>6, <3>7
  <2>. QED
    BY <2>2, <2>3, <2>4, <2>5
<1>2. CASE t \notin Unsigned
  <2>1. (\A x, y : Times(t, x, y) = x * y) /\ Carrier(t) = Int
    BY <1>2 DEF Times, Carrier
  <2>2. ASSUME NEW x \in Int, NEW y \in Int, NEW z \in Int
        PROVE  x * y \in Int /\ x * 1 = x /\ 1 * x = x /\ (x * y) * z = x * (y * z)
    OBVIOUS
  <2>. QED
    BY <2>1, <2>2
<1>. QED
  BY <1>1, <1>2

LEMMA PowersAre ==
    ASSUME NEW t, NEW x \in Carrier(t), NEW k \in Nat
    PROVE  /\ Powers(t, x, k)[0] = 1
           /\ \A i \in 1..k : Powers(t, x, k)[i] = Times(t, x, Powers(t, x, k)[i - 1])
<1> DEFINE step == [p \in (0..k) \X Carrier(t) |-> Times(t, x, p[2])]
           Solves(f) == f = [i \in 0..k |-> IF i = 0 THEN 1
                                ELSE IF t \in Unsigned THEN (x * f[i - 1]) % Modulus
                                ELSE x * f[i - 1]]
<1>1. \A i \in 0..k : \A v \in Carrier(t) :
          step[<<i, v>>] = Times(t, x, v) /\ step[<<i, v>>] \in Carrier(t)
  BY TimesIs
<1>. HIDE DEF step
<1>2. \E f : Recurs(f, k, Carrier(t), 1, step)
  BY <1>1, TimesIs, RecursionExists DEF IsStep
<1>3. PICK f : Recurs(f, k, Carrier(t), 1, step)
  BY <1>2
<1>4. f \in [0..k -> Carrier(t)] /\ f[0] = 1 /\ \A i \in 1..k : f[i] = Times(t, x, f[i - 1])
  <2>1. \A i \in 1..k : i \in 0..k /\ i - 1 \in 0..k
    OBVIOUS
  <2>. QED
    BY <1>1, <1>3, <2>1 DEF Recurs
<1>5. Solves(f)
  <2>1. f = [i \in 0..k |-> f[i]] /\ \A i \in 0..k : i = 0 \/ i \in 1..k
    BY <1>4
  <2>. QED
    BY <1>4, <2>1 DEF Times
<1>6. Powers(t, x, k) = CHOOSE g : Solves(g)
  BY DEF Powers
<1>7. Solves(Powers(t, x, k))
  <2>. HIDE DEF Solves
  <2>. QED
    BY <1>5, <1>6
<1>. QED
  BY <1>7 DEF Times

(* Raised is defined by its rule of recursion, on which all else rests.      *)
LEMMA RaisedIs ==
    ASSUME NEW t, NEW x \in Carrier(t)
    PROVE  /\ Raised(t, x, 0) = 1
           /\ \A k \in Nat : Raised(t, x, k) \in Carrier(t)
           /\ \A k \in Nat : Raised(t, x, k + 1) = Times(t, x, Raised(t, x, k))
<1>1. Raised(t, x, 0) = 1
  BY PowersAre DEF Raised
<1>2. ASSUME NEW k \in Nat, NEW m \in Nat, k <= m
      PROVE  Powers(t, x, m)[k] = Raised(t, x, k)
  <2> DEFINE same == {i \in 0..k : Powers(t, x, m)[i] = Powers(t, x, k)[i]}
  <2>1. 0 \in same
    BY PowersAre
  <2>2. ASSUME NEW i \in 0..k, i < k, i \in same PROVE i + 1 \in same
    <3>1. i + 1 \in 1..k /\ i + 1 \in 1..m /\ (i + 1) - 1 = i
      BY <1>2, <2>2
    <3>2. Powers(t, x, m)[i + 1] = Times(t, x, Powers(t, x, m)[i])
      BY <1>2, <3>1, PowersAre
    <3>3. Powers(t, x, k)[i + 1] = Times(t, x, Powers(t, x, k)[i])
      BY <1>2, <3>1, PowersAre
    <3>. QED
      BY <2>2, <3>1, <3>2, <3>3
  <2>3. k \in same
    <3>. HIDE DEF same
    <3>. QED
      BY <2>1, <2>2, Climb
  <2>. QED
    BY <2>3 DEF Raised
<1>3. ASSUME NEW k \in Nat PROVE Raised(t, x, k + 1) = Times(t, x, Raised(t, x, k))
  <2>1. k + 1 \in Nat /\ k + 1 \in 1..(k + 1) /\ (k + 1) - 1 = k /\ k <= k + 1
    OBVIOUS
  <2>2. Powers(t, x, k + 1)[k + 1] = Times(t, x, Powers(t, x, k + 1)[k])
    BY <2>1, PowersAre
  <2>3. Powers(t, x, k + 1)[k] = Raised(t, x, k)
    BY <1>2, <2>1
  <2>. QED
    BY <2>2, <2>3 DEF Raised
<1>4. ASSUME NEW k \in Nat PROVE Raised(t, x, k) \in Carrier(t)
  <2> DEFINE good == {i \in 0..k : Raised(t, x, i) \in Carrier(t)}
  <2>1. 0 \in good
    BY <1>1, TimesIs
  <2>2. ASSUME NEW i \in 0..k, i < k, i \in good PROVE i + 1 \in good
    <3>1. i + 1 \in 0..k /\ i \in Nat
      BY <2>2
    <3>2. Raised(t, x, i + 1) \in Carrier(t)
      BY <1>3, <2>2, <3>1, TimesIs
    <3>. QED
      BY <3>1, <3>2
  <2>3. k \in good
    <3>. HIDE DEF good
    <3>. QED
      BY <2>1, <2>2, Climb
  <2>. QED
    BY <2>3
<1>. QED
  BY <1>1, <1>3, <1>4

(* The square of the base stands for two factors.                            *)
LEMMA RaisedOfSquare ==
    ASSUME NEW t, NEW x \in Carrier(t), NEW h \in Nat
    PROVE  Raised(t, Times(t, x, x), h) = Raised(t, x, 2 * h)
<1> DEFINE square == Times(t, x, x)
           good == {i \in 0..h : Raised(t, square, i) = Raised(t, x, 2 * i)}
<1>1. square \in Carrier(t)
  BY TimesIs
<1>. HIDE DEF square
<1>2. 0 \in good
  <2>1. 2 * 0 = 0 /\ 0 \in 0..h
    OBVIOUS
  <2>. QED
    BY <1>1, <2>1, RaisedIs
<1>3. ASSUME NEW i \in 0..h, i < h, i \in good PROVE i + 1 \in good
  <2>1. i \in Nat /\ 2 * i \in Nat /\ 2 * i + 1 \in Nat /\ 2 * (i + 1) = (2 * i + 1) + 1
        /\ i + 1 \in 0..h
    BY <1>3
  <2> DEFINE m == 2 * i
             p == Raised(t, x, m)
  <2>2. m \in Nat /\ m + 1 \in Nat
    BY <2>1
  <2>. HIDE DEF m
  <2>3. p \in Carrier(t)
    BY <2>2, RaisedIs
  <2>4. Raised(t, x, m + 1) = Times(t, x, p)
    BY <2>2, RaisedIs
  <2>5. Raised(t, x, (m + 1) + 1) = Times(t, x, Raised(t, x, m + 1))
    BY <2>2, RaisedIs
  <2>6. Raised(t, square, i + 1) = Times(t, square, Raised(t, square, i))
    BY <1>1, <2>1, RaisedIs
  <2>7. Raised(t, square, i) = p
    BY <1>3 DEF m
  <2>8. Times(t, square, p) = Times(t, x, Times(t, x, p))
    BY <2>3, TimesIs DEF square
  <2>9. Raised(t, square, i + 1) = Raised(t, x, (m + 1) + 1)
    BY <2>4, <2>5, <2>6, <2>7, <2>8
  <2>. QED
    BY <2>1, <2>9 DEF m
<1>4. h \in good
  <2>. HIDE DEF good
  <2>. QED
    BY <1>2, <1>3, Climb
<1>. QED
  BY <1>4 DEF square

LEMMA RaisedOne ==
    ASSUME NEW t, NEW k \in Nat
    PROVE  Raised(t, 1, k) = 1
<1> DEFINE good == {i \in 0..k : Raised(t, 1, i) = 1}
<1>1. 0 \in good
  BY TimesIs, RaisedIs
<1>2. ASSUME NEW i \in 0..k, i < k, i \in good PROVE i + 1 \in good
  <2>1. i \in Nat /\ i + 1 \in 0..k
    BY <1>2
  <2>2. Raised(t, 1, i + 1) = Times(t, 1, Raised(t, 1, i))
    BY <2>1, TimesIs, RaisedIs
  <2>. QED
    BY <1>2, <2>1, <2>2, TimesIs
<1>3. k \in good
  <2>. HIDE DEF good
  <2>. QED
    BY <1>1, <1>2, Climb
<1>. QED
  BY <1>3

(* A power of an int is zero exactly if the base is and the exponent is not. *)
LEMMA RaisedZero ==
    ASSUME NEW t, t \notin Unsigned, NEW x \in Int, NEW k \in Nat
    PROVE  /\ Raised(t, x, k) \in Int
           /\ Raised(t, x, k) = 0 <=> x = 0 /\ k # 0
<1>0. Carrier(t) = Int /\ \A u, v : Times(t, u, v) = u * v
  BY DEF Carrier, Times
<1> DEFINE good == {i \in 0..k : Raised(t, x, i) = 0 <=> x = 0 /\ i # 0}
<1>1. 0 \in good
  BY <1>0, RaisedIs
<1>2. ASSUME NEW i \in 0..k, i < k, i \in good PROVE i + 1 \in good
  <2> DEFINE p == Raised(t, x, i)
  <2>1. i \in Nat /\ i + 1 \in 0..k /\ i + 1 # 0
    BY <1>2
  <2>2. Raised(t, x, i + 1) = x * p /\ p \in Int
    BY <1>0, <2>1, RaisedIs
  <2>3. x # 0 => p # 0
    BY <1>2
  <2>. HIDE DEF p
  <2>4. x # 0 => x * p # 0
    BY <2>2, <2>3
  <2>5. x = 0 => x * p = 0
    BY <2>2
  <2>. QED
    BY <2>1, <2>2, <2>4, <2>5
<1>3. k \in good
  <2>. HIDE DEF good
  <2>. QED
    BY <1>1, <1>2, Climb
<1>. QED
  BY <1>0, <1>3, RaisedIs

(* One round of the loop of IntegerPow.                                      *)
Round(t, s) ==
    IF s[3] = 0 THEN s
    ELSE <<IF s[3] % 2 = 1 THEN Product(t, s[1], s[2]) ELSE s[1],
           Product(t, s[2], s[2]), s[3] \div 2>>

Loop == Int \X Int \X Nat

LEMMA RoundIs ==
    ASSUME NEW t, NEW s \in Loop
    PROVE  Round(t, s) \in Loop
<1>1. \A x, y \in Int : Product(t, x, y) \in Int
  <2>1. ASSUME NEW x \in Int, NEW y \in Int PROVE Product(t, x, y) \in Int
    <3> DEFINE n == x * y
    <3>1. n \in Int
      OBVIOUS
    <3>. HIDE DEF n
    <3>2. n % Modulus \in Int /\ Overflown \in Int
      BY <3>1, Remainder, WidthFacts DEF Overflown
    <3>. QED
      BY <3>1, <3>2 DEF Product, n
  <2>. QED
    BY <2>1
<1>2. s[3] \div 2 \in Nat
  BY DEF Loop
<1>. QED
  BY <1>1, <1>2 DEF Round, Loop

(* The rounds of the loop, each in terms of the one before.                  *)
LEMMA RoundsAre ==
    ASSUME NEW t, NEW base \in Int, NEW exponent \in Nat
    PROVE  /\ RoundsOf(t, base, exponent)[0] = <<1, base, exponent>>
           /\ \A k \in 1..Modulus :
                  RoundsOf(t, base, exponent)[k] = Round(t, RoundsOf(t, base, exponent)[k - 1])
           /\ \A k \in 0..Modulus : RoundsOf(t, base, exponent)[k] \in Loop
<1> DEFINE start == <<1, base, exponent>>
           step == [p \in (0..Modulus) \X Loop |-> Round(t, p[2])]
           Solves(f) == f = [k \in 0..Modulus |-> IF k = 0 THEN <<1, base, exponent>>
                                                  ELSE Round(t, f[k - 1])]
<1>1. \A k \in 0..Modulus : \A s \in Loop :
          step[<<k, s>>] = Round(t, s) /\ step[<<k, s>>] \in Loop
  BY RoundIs
<1>2. start \in Loop /\ Modulus \in Nat
  BY WidthFacts DEF Loop
<1>. HIDE DEF step, start
<1>3. PICK f : Recurs(f, Modulus, Loop, start, step)
  BY <1>1, <1>2, RecursionExists DEF IsStep
<1>4. /\ f \in [0..Modulus -> Loop] /\ f[0] = start
      /\ \A k \in 1..Modulus : f[k] = Round(t, f[k - 1])
  <2>1. \A k \in 1..Modulus : k \in 0..Modulus /\ k - 1 \in 0..Modulus
    BY <1>2
  <2>. QED
    BY <1>1, <1>3, <2>1 DEF Recurs
<1>5. Solves(f)
  <2>1. f = [k \in 0..Modulus |-> f[k]] /\ \A k \in 0..Modulus : k = 0 \/ k \in 1..Modulus
    BY <1>2, <1>4
  <2>. QED
    BY <1>4, <2>1 DEF start
<1>6. RoundsOf(t, base, exponent) = CHOOSE g : Solves(g)
  BY DEF RoundsOf, Round
<1>7. Solves(RoundsOf(t, base, exponent))
  <2>. HIDE DEF Solves
  <2>. QED
    BY <1>5, <1>6
<1> DEFINE r == RoundsOf(t, base, exponent)
<1>. HIDE DEF r
<1>8. r[0] = start /\ \A k \in 1..Modulus : r[k] = Round(t, r[k - 1])
  <2>1. \A k \in 1..Modulus : k \in 0..Modulus /\ k # 0
    BY <1>2
  <2>2. r = [k \in 0..Modulus |-> IF k = 0 THEN <<1, base, exponent>> ELSE Round(t, r[k - 1])]
    BY <1>7 DEF r
  <2>3. \A k \in 0..Modulus :
            r[k] = IF k = 0 THEN <<1, base, exponent>> ELSE Round(t, r[k - 1])
    BY <2>2
  <2>. QED
    BY <1>2, <2>1, <2>3 DEF start
<1>9. \A k \in 0..Modulus : r[k] \in Loop
  <2> DEFINE good == {k \in 0..Modulus : r[k] \in Loop}
  <2>1. 0 \in good
    BY <1>2, <1>8
  <2>2. ASSUME NEW k \in 0..Modulus, k < Modulus, k \in good PROVE k + 1 \in good
    <3>1. k + 1 \in 1..Modulus /\ k + 1 \in 0..Modulus /\ (k + 1) - 1 = k
      BY <1>2, <2>2
    <3>2. r[k + 1] = Round(t, r[k])
      BY <1>8, <3>1
    <3>. QED
      BY <2>2, <3>1, <3>2, RoundIs
  <2>3. \A k \in 0..Modulus : k \in good
    <3>. HIDE DEF good
    <3>. QED
      BY <1>2, <2>1, <2>2, Climb
  <2>. QED
    BY <2>3
<1>. QED
  BY <1>8, <1>9 DEF r, start

-----------------------------------------------------------------------------
(* IntegerPow: the loop keeps res * l_op ^ r_op.                             *)

(* A round whose products are those meant keeps res * l_op ^ r_op.           *)
LEMMA RoundKeepsPower ==
    ASSUME NEW t, NEW x \in Carrier(t), NEW y \in Carrier(t), NEW e \in Nat, e # 0
    PROVE  /\ e % 2 = 1 => Times(t, Times(t, x, y), Raised(t, Times(t, y, y), e \div 2))
                               = Times(t, x, Raised(t, y, e))
           /\ e % 2 # 1 => Times(t, x, Raised(t, Times(t, y, y), e \div 2))
                               = Times(t, x, Raised(t, y, e))
           /\ e \div 2 \in Nat /\ e \div 2 < e
<1> DEFINE h == e \div 2
<1>1. h \in Nat /\ h < e /\ (e % 2 = 1 => e = 2 * h + 1) /\ (e % 2 # 1 => e = 2 * h)
  OBVIOUS
<1>. HIDE DEF h
<1>2. Raised(t, Times(t, y, y), h) = Raised(t, y, 2 * h)
  BY <1>1, RaisedOfSquare
<1>3. ASSUME e % 2 = 1
      PROVE  Times(t, Times(t, x, y), Raised(t, Times(t, y, y), h)) = Times(t, x, Raised(t, y, e))
  <2> DEFINE m == 2 * h
             p == Raised(t, y, m)
  <2>1. m \in Nat /\ e = m + 1
    BY <1>1, <1>3
  <2>. HIDE DEF m
  <2>2. p \in Carrier(t) /\ Raised(t, y, m + 1) = Times(t, y, p)
    BY <2>1, RaisedIs
  <2>. HIDE DEF p
  <2>3. Times(t, Times(t, x, y), p) = Times(t, x, Times(t, y, p))
    BY <2>2, TimesIs
  <2>. QED
    BY <1>2, <2>1, <2>2, <2>3 DEF p, m
<1>4. ASSUME e % 2 # 1
      PROVE  Times(t, x, Raised(t, Times(t, y, y), h)) = Times(t, x, Raised(t, y, e))
  BY <1>1, <1>2, <1>4
<1>. QED
  BY <1>1, <1>3, <1>4 DEF h

(* The loop ends: each round halves the exponent.                            *)
LEMMA RoundsEnd ==
    ASSUME NEW t, NEW base \in Int, NEW exponent \in 0..Modulus
    PROVE  Rounds(t, base, exponent)[3] = 0
<1> DEFINE r == RoundsOf(t, base, exponent)
           good == {k \in 0..Modulus : r[k][3] \in Nat /\ (r[k][3] = 0 \/ r[k][3] + k <= exponent)}
<1>0. Modulus \in Nat
  BY WidthFacts
<1>1. /\ r[0] = <<1, base, exponent>>
      /\ \A k \in 1..Modulus : r[k] = Round(t, r[k - 1])
      /\ \A k \in 0..Modulus : r[k] \in Loop
  BY <1>0, RoundsAre
<1>. HIDE DEF r
<1>2. 0 \in good
  BY <1>0, <1>1
<1>3. ASSUME NEW k \in 0..Modulus, k < Modulus, k \in good PROVE k + 1 \in good
  <2>1. k + 1 \in 1..Modulus /\ k + 1 \in 0..Modulus /\ (k + 1) - 1 = k
    BY <1>0, <1>3
  <2>2. r[k + 1] = Round(t, r[k])
    BY <1>1, <2>1
  <2> DEFINE e == r[k][3]
  <2>3. e \in Nat /\ (e = 0 \/ e + k <= exponent)
    BY <1>3
  <2>4. r[k + 1][3] = IF e = 0 THEN e ELSE e \div 2
    BY <2>2 DEF Round
  <2>. HIDE DEF e
  <2>5. e # 0 => e \div 2 \in Nat /\ e \div 2 < e
    BY <2>3
  <2>. QED
    BY <1>0, <2>1, <2>3, <2>4, <2>5
<1>4. Modulus \in good
  <2>. HIDE DEF good
  <2>. QED
    BY <1>0, <1>2, <1>3, Climb
<1>. QED
  BY <1>0, <1>4 DEF Rounds, r

(* An unsigned power is that of the residues.                                *)
LEMMA UnsignedPow ==
    ASSUME NEW t \in Unsigned, NEW base \in Carrier(t), NEW exponent \in 0..Modulus
    PROVE  IntegerPow(t, base, exponent) = Raised(t, base, exponent)
<1> DEFINE r == RoundsOf(t, base, exponent)
           X == Raised(t, base, exponent)
           Good(s) == s[1] \in Carrier(t) /\ s[2] \in Carrier(t)
                      /\ Times(t, s[1], Raised(t, s[2], s[3])) = X
           good == {k \in 0..Modulus : Good(r[k])}
<1>0. Modulus \in Nat /\ base \in Int /\ exponent \in Nat
  BY WidthFacts, TimesIs
<1>1. /\ r[0] = <<1, base, exponent>>
      /\ \A k \in 1..Modulus : r[k] = Round(t, r[k - 1])
      /\ \A k \in 0..Modulus : r[k] \in Loop
  BY <1>0, RoundsAre
<1>. HIDE DEF r
<1>2. 0 \in good
  <2>1. X \in Carrier(t)
    BY <1>0, RaisedIs
  <2>2. Times(t, 1, X) = X /\ 1 \in Carrier(t)
    BY <2>1, TimesIs
  <2>. QED
    BY <1>0, <1>1, <2>2
<1>3. ASSUME NEW k \in 0..Modulus, k < Modulus, k \in good PROVE k + 1 \in good
  <2>1. k + 1 \in 1..Modulus /\ k + 1 \in 0..Modulus /\ (k + 1) - 1 = k
    BY <1>0, <1>3
  <2>2. r[k + 1] = Round(t, r[k])
    BY <1>1, <2>1
  <2> DEFINE x == r[k][1]
             y == r[k][2]
             e == r[k][3]
  <2>3. x \in Carrier(t) /\ y \in Carrier(t) /\ e \in Nat /\ Times(t, x, Raised(t, y, e)) = X
    BY <1>1, <1>3 DEF Loop
  <2>4. /\ e = 0 => r[k + 1] = r[k]
        /\ e # 0 => r[k + 1] = <<IF e % 2 = 1 THEN Times(t, x, y) ELSE x, Times(t, y, y), e \div 2>>
    BY <2>2 DEF Round, Product, Times
  <2>. HIDE DEF x, y, e, X
  <2>5. CASE e = 0
    BY <1>3, <2>1, <2>4, <2>5
  <2>6. CASE e # 0 /\ e % 2 = 1
    <3>1. r[k + 1] = <<Times(t, x, y), Times(t, y, y), e \div 2>>
      BY <2>4, <2>6
    <3>2. Times(t, x, y) \in Carrier(t) /\ Times(t, y, y) \in Carrier(t)
      BY <2>3, TimesIs
    <3>3. Times(t, Times(t, x, y), Raised(t, Times(t, y, y), e \div 2)) = X
      BY <2>3, <2>6, RoundKeepsPower
    <3>4. Good(r[k + 1])
      BY <3>1, <3>2, <3>3
    <3>. QED
      BY <2>1, <3>4
  <2>7. CASE e # 0 /\ e % 2 # 1
    <3>1. r[k + 1] = <<x, Times(t, y, y), e \div 2>>
      BY <2>4, <2>7
    <3>2. Times(t, y, y) \in Carrier(t)
      BY <2>3, TimesIs
    <3>3. Times(t, x, Raised(t, Times(t, y, y), e \div 2)) = X
      BY <2>3, <2>7, RoundKeepsPower
    <3>4. Good(r[k + 1])
      BY <2>3, <3>1, <3>2, <3>3
    <3>. QED
      BY <2>1, <3>4
  <2>. QED
    BY <2>5, <2>6, <2>7
<1>4. Good(Rounds(t, base, exponent))
  <2>1. Modulus \in good
    <3>. HIDE DEF good
    <3>. QED
      BY <1>0, <1>2, <1>3, Climb
  <2>. QED
    BY <2>1 DEF Rounds, r
<1> DEFINE last == Rounds(t, base, exponent)
<1>5. last[1] = X
  <2> DEFINE u == last[1]
             v == last[2]
             e == last[3]
  <2>1. e = 0
    BY <1>0, RoundsEnd
  <2>2. u \in Carrier(t) /\ v \in Carrier(t) /\ Times(t, u, Raised(t, v, e)) = X
    BY <1>4
  <2>. HIDE DEF u, v, e, X
  <2>3. Raised(t, v, 0) = 1
    BY <2>2, RaisedIs
  <2>4. u = X
    BY <2>1, <2>2, <2>3, TimesIs
  <2>. QED
    BY <2>4 DEF u
<1>6. Overflown \notin {last[1], last[2]}
  BY <1>4, WidthFacts DEF Carrier
<1>. QED
  BY <1>5, <1>6 DEF IntegerPow

(* A factor other than zero does not make a square smaller.                  *)
LEMMA SquareAtLeast ==
    ASSUME NEW u \in Int, NEW v \in Int
    PROVE  /\ u * u \in Nat /\ u * u >= u /\ u * u >= -u
           /\ v # 0 => (u * v) * (u * v) >= u * u
<1>1. \A x \in Int : x * x \in Nat /\ x * x >= x /\ x * x >= -x /\ (x # 0 => x * x >= 1)
  <2>1. \A m, n \in Nat : m * n \in Nat
    OBVIOUS
  <2> SUFFICES ASSUME NEW x \in Int
               PROVE  x * x \in Nat /\ x * x >= x /\ x * x >= -x /\ (x # 0 => x * x >= 1)
    OBVIOUS
  <2>2. CASE x >= 1
    <3>1. x - 1 \in Nat /\ x \in Nat
      BY <2>2
    <3>2. x * (x - 1) \in Nat
      BY <2>1, <3>1
    <3>3. x * x = x * (x - 1) + x
      OBVIOUS
    <3>. QED
      BY <2>2, <3>2, <3>3
  <2>3. CASE x <= -1
    <3>1. -x - 1 \in Nat /\ -x \in Nat
      BY <2>3
    <3>2. (-x) * (-x - 1) \in Nat
      BY <2>1, <3>1
    <3>3. x * x = (-x) * (-x - 1) - x
      OBVIOUS
    <3>. QED
      BY <2>3, <3>2, <3>3
  <2>. QED
    BY <2>2, <2>3
<1>2. ASSUME v # 0 PROVE (u * v) * (u * v) >= u * u
  <2> DEFINE p == u * u
             q == v * v
  <2>1. p \in Nat /\ q \in Nat /\ q >= 1
    BY <1>1, <1>2
  <2>2. (u * v) * (u * v) = p * q
    OBVIOUS
  <2>. HIDE DEF p, q
  <2>3. q - 1 \in Nat
    BY <2>1
  <2>4. p * (q - 1) \in Nat /\ p * q = p * (q - 1) + p
    BY <2>1, <2>3
  <2>. QED
    BY <2>1, <2>2, <2>4 DEF p
<1>. QED
  BY <1>1, <1>2

(* The square of the power does not fit an int.                              *)
Great(x) == x # 0 /\ x * x > MAX

(* In terms of the quotient, as TooGreat says it.                            *)
LEMMA GreatIs ==
    ASSUME NEW x \in Int, Great(x)
    PROVE  x # 0 /\ Abs(x) > MAX \div Abs(x)
<1> DEFINE n == Abs(x)
           q == MAX \div n
<1>1. n \in Nat \ {0} /\ n * n > MAX /\ MAX \in Nat
  BY AbsIs, WidthFacts DEF Great
<1>2. x # 0
  BY DEF Great
<1>. HIDE DEF n
<1>3. q \in Nat /\ n * q <= MAX
  BY <1>1
<1>. HIDE DEF q
<1>4. ASSUME n <= q PROVE FALSE
  <2>1. q - n \in Nat
    BY <1>1, <1>3, <1>4
  <2>2. n * (q - n) \in Nat /\ n * q = n * n + n * (q - n)
    BY <1>1, <1>3, <2>1
  <2>. QED
    BY <1>1, <1>3, <2>2
<1>. QED
  BY <1>1, <1>2, <1>3, <1>4 DEF n, q

(* A number that overflows on the way to a power, be it the product or the   *)
(* square of the base, has factors of that power.                            *)
LEMMA OverflowIsGreat ==
    ASSUME NEW u \in Ints, NEW v \in Ints, NEW e \in Nat, e # 0, v # 0 => u # 0,
           u * v \notin Ints \/ v * v \notin Ints
    PROVE  Great(u * Raised("int", v, e))
<1>0. /\ u \in Int /\ v \in Int /\ 0 \in Ints /\ "int" \notin Unsigned
      /\ e - 1 \in Nat /\ (e - 1) + 1 = e
  BY WidthFacts DEF Unsigned
<1>1. v # 0 /\ u # 0
  BY <1>0
<1> DEFINE r == Raised("int", v, e - 1)
           p == u * v
           x == u * Raised("int", v, e)
<1>2. r \in Int /\ r # 0
  BY <1>0, <1>1, RaisedZero
<1>3. Raised("int", v, e) = v * r
  <2>1. v \in Carrier("int")
    BY <1>0 DEF Carrier
  <2>2. Raised("int", v, (e - 1) + 1) = Times("int", v, r)
    BY <1>0, <2>1, RaisedIs
  <2>. QED
    BY <1>0, <2>2 DEF Times
<1>. HIDE DEF r
<1>4. x = p * r /\ p \in Int
  BY <1>0, <1>2, <1>3
<1>5. p # 0
  BY <1>0, <1>1
<1>6. p * p >= v * v
  <2>1. (v * u) * (v * u) >= v * v
    BY <1>0, <1>1, SquareAtLeast
  <2>. QED
    BY <1>0, <2>1
<1>7. p * p > MAX
  <2>1. CASE p \notin Ints
    <3>1. p > MAX \/ p < MIN
      BY <1>4, <2>1, WidthFacts
    <3>2. p * p >= p /\ p * p >= -p /\ p * p \in Nat
      BY <1>4, SquareAtLeast
    <3>. HIDE DEF p
    <3>. QED
      BY <1>4, <3>1, <3>2, WidthFacts
  <2>2. CASE v * v \notin Ints
    <3>1. v * v \in Nat
      BY <1>0, SquareAtLeast
    <3>2. v * v > MAX
      BY <2>2, <3>1, WidthFacts
    <3>. HIDE DEF p
    <3>. QED
      BY <1>4, <1>6, <3>1, <3>2, WidthFacts, SquareAtLeast
  <2>. QED
    BY <2>1, <2>2
<1>. HIDE DEF p, x
<1>8. x # 0 /\ x * x >= p * p
  BY <1>2, <1>4, <1>5, SquareAtLeast
<1>9. x * x > MAX
  BY <1>2, <1>4, <1>7, <1>8, WidthFacts, SquareAtLeast
<1>. QED
  BY <1>8, <1>9 DEF Great, x

(* A round whose numbers all fit an int, and one after an overflow.          *)
Fits(s, x) ==
    /\ s[1] \in Ints /\ s[2] \in Ints
    /\ s[2] # 0 => s[1] # 0
    /\ s[1] * Raised("int", s[2], s[3]) = x

Spoilt(s, x) == Overflown \in {s[1], s[2]} /\ Great(x)

(* As long as the numbers fit, the power is still the one wanted; the round  *)
(* that overflows shows that its square is too great.                        *)
LEMMA RoundFits ==
    ASSUME NEW s \in Loop, NEW x \in Int, Fits(s, x)
    PROVE  Fits(Round("int", s), x) \/ Spoilt(Round("int", s), x)
<1> DEFINE u == s[1]
           v == s[2]
           e == s[3]
           r == Round("int", s)
<1>0. /\ s = <<u, v, e>> /\ u \in Ints /\ v \in Ints /\ e \in Nat
      /\ (v # 0 => u # 0) /\ u * Raised("int", v, e) = x
  BY DEF Loop, Fits
<1>1. CASE e = 0
  BY <1>1 DEF Round
<1>2. CASE e # 0
  <2>0. /\ u \in Int /\ v \in Int /\ Overflown \notin Ints /\ Overflown = Modulus
        /\ u # Overflown /\ v # Overflown
    BY <1>0, WidthFacts DEF Overflown
  <2>1. /\ Product("int", u, v) = IF u * v \in Ints THEN u * v ELSE Overflown
        /\ Product("int", v, v) = IF v * v \in Ints THEN v * v ELSE Overflown
    BY <2>0 DEF Product, Unsigned
  <2> DEFINE p == Product("int", u, v)
             q == Product("int", v, v)
  <2>2. r = <<IF e % 2 = 1 THEN p ELSE u, q, e \div 2>>
    BY <1>2 DEF Round
  <2>. HIDE DEF p, q, r, u, v, e
  <2>3. CASE v * v \notin Ints \/ (e % 2 = 1 /\ u * v \notin Ints)
    <3>1. Overflown \in {r[1], r[2]}
      BY <2>1, <2>2, <2>3 DEF p, q
    <3>2. Great(x)
      BY <1>0, <1>2, <2>3, OverflowIsGreat
    <3>. QED
      BY <3>1, <3>2 DEF Spoilt, r
  <2>4. CASE v * v \in Ints /\ (e % 2 = 1 => u * v \in Ints)
    <3>1. q = v * v /\ (e % 2 = 1 => p = u * v)
      BY <2>1, <2>4 DEF p, q
    <3>2. /\ e % 2 = 1 => Times("int", Times("int", u, v),
                                 Raised("int", Times("int", v, v), e \div 2))
                              = Times("int", u, Raised("int", v, e))
          /\ e % 2 # 1 => Times("int", u, Raised("int", Times("int", v, v), e \div 2))
                              = Times("int", u, Raised("int", v, e))
      <4>1. u \in Carrier("int") /\ v \in Carrier("int")
        BY <2>0 DEF Carrier, Unsigned
      <4>. QED
        BY <1>0, <1>2, <4>1, RoundKeepsPower
    <3>3. \A m, n \in Int : Times("int", m, n) = m * n
      BY DEF Times, Unsigned
    <3>4. \A m, n : Times("int", m, n) = m * n
      BY DEF Times, Unsigned
    <3> DEFINE w == Raised("int", v * v, e \div 2)
    <3>5. /\ e % 2 = 1 => (u * v) * w = x
          /\ e % 2 # 1 => u * w = x
      BY <1>0, <3>2, <3>4
    <3>6. v * v # 0 => v # 0
      BY <2>0
    <3>7. u # 0 /\ v # 0 => u * v # 0
      BY <2>0
    <3>8. CASE e % 2 = 1
      <4>1. r = <<u * v, v * v, e \div 2>>
        BY <2>2, <3>1, <3>8
      <4>2. r[1] = u * v /\ r[2] = v * v /\ r[3] = e \div 2
        BY <4>1
      <4>3. r[1] \in Ints /\ r[2] \in Ints /\ (r[2] # 0 => r[1] # 0)
        BY <1>0, <2>4, <3>6, <3>7, <3>8, <4>2
      <4>4. r[1] * Raised("int", r[2], r[3]) = x
        BY <3>5, <3>8, <4>2
      <4>. QED
        BY <4>3, <4>4 DEF Fits, r
    <3>9. CASE e % 2 # 1
      <4>1. r = <<u, v * v, e \div 2>>
        BY <2>2, <3>1, <3>9
      <4>2. r[1] = u /\ r[2] = v * v /\ r[3] = e \div 2
        BY <4>1
      <4>3. r[1] \in Ints /\ r[2] \in Ints /\ (r[2] # 0 => r[1] # 0)
        BY <1>0, <2>4, <3>6, <4>2
      <4>4. r[1] * Raised("int", r[2], r[3]) = x
        BY <3>5, <3>9, <4>2
      <4>. QED
        BY <4>3, <4>4 DEF Fits, r
    <3>. QED
      BY <3>8, <3>9
  <2>. QED
    BY <2>3, <2>4
<1>. QED
  BY <1>0, <1>1, <1>2

(* An overflow stays in one of the two numbers.                              *)
LEMMA RoundStaysSpoilt ==
    ASSUME NEW s \in Loop, NEW x, Spoilt(s, x)
    PROVE  Spoilt(Round("int", s), x)
BY DEF Spoilt, Round, Product, Unsigned, Loop

(* A power of ints is exact, or overflows on the way, and then its square is *)
(* too great.                                                                *)
LEMMA SignedPow ==
    ASSUME NEW base \in Ints, NEW exponent \in 0..Modulus
    PROVE  LET n == IntegerPow("int", base, exponent)
               x == Raised("int", base, exponent)
           IN \/ n = x /\ x \in Ints
              \/ n = Overflown /\ Great(x)
<1> DEFINE r == RoundsOf("int", base, exponent)
           x == Raised("int", base, exponent)
           good == {k \in 0..Modulus : Fits(r[k], x) \/ Spoilt(r[k], x)}
<1>0. Modulus \in Nat /\ base \in Int /\ exponent \in Nat /\ 1 \in Ints /\ Overflown \notin Ints
  BY WidthFacts
<1>1. /\ r[0] = <<1, base, exponent>>
      /\ \A k \in 1..Modulus : r[k] = Round("int", r[k - 1])
      /\ \A k \in 0..Modulus : r[k] \in Loop
  BY <1>0, RoundsAre
<1>2. x \in Int
  BY <1>0, RaisedZero DEF Unsigned
<1>. HIDE DEF r
<1>3. 0 \in good
  <2>1. 1 * x = x
    BY <1>2
  <2>. QED
    BY <1>0, <1>1, <2>1 DEF Fits
<1>. HIDE DEF x
<1>4. ASSUME NEW k \in 0..Modulus, k < Modulus, k \in good PROVE k + 1 \in good
  <2>1. k + 1 \in 1..Modulus /\ k + 1 \in 0..Modulus /\ (k + 1) - 1 = k
    BY <1>0, <1>4
  <2>2. r[k + 1] = Round("int", r[k]) /\ r[k] \in Loop
    BY <1>1, <2>1
  <2>. QED
    BY <1>2, <1>4, <2>1, <2>2, RoundFits, RoundStaysSpoilt
<1> DEFINE last == Rounds("int", base, exponent)
<1>5. Fits(last, x) \/ Spoilt(last, x)
  <2>1. Modulus \in good
    <3>. HIDE DEF good
    <3>. QED
      BY <1>0, <1>3, <1>4, Climb
  <2>. QED
    BY <2>1 DEF Rounds, r
<1>6. last[3] = 0
  BY <1>0, RoundsEnd
<1>7. IntegerPow("int", base, exponent)
          = IF Overflown \in {last[1], last[2]} THEN Overflown ELSE last[1]
  BY DEF IntegerPow
<1>. HIDE DEF last
<1>8. CASE Fits(last, x)
  <2>1. last[1] \in Ints /\ last[2] \in Ints /\ last[1] * Raised("int", last[2], 0) = x
    BY <1>6, <1>8 DEF Fits
  <2>2. Raised("int", last[2], 0) = 1
    BY <2>1, WidthFacts, RaisedIs DEF Carrier, Unsigned
  <2>3. last[1] = x
    BY <2>1, <2>2, WidthFacts
  <2>. QED
    BY <1>0, <1>7, <2>1, <2>3 DEF x
<1>9. CASE Spoilt(last, x)
  BY <1>7, <1>9 DEF Spoilt, x
<1>. QED
  BY <1>5, <1>8, <1>9

(* The powers of a rational's parts are those of ints.                       *)
LEMMA RationalRaised ==
    ASSUME NEW x \in Int, NEW k \in Nat
    PROVE  Raised("rational", x, k) = Raised("int", x, k)
<1>1. x \in Carrier("rational") /\ x \in Carrier("int")
  BY DEF Carrier, Unsigned
<1> DEFINE good == {i \in 0..k : Raised("rational", x, i) = Raised("int", x, i)}
<1>2. 0 \in good
  BY <1>1, RaisedIs
<1>3. ASSUME NEW i \in 0..k, i < k, i \in good PROVE i + 1 \in good
  <2>1. i \in Nat /\ i + 1 \in 0..k
    BY <1>3
  <2>2. /\ Raised("rational", x, i + 1) = Times("rational", x, Raised("rational", x, i))
        /\ Raised("int", x, i + 1) = Times("int", x, Raised("int", x, i))
    BY <1>1, <2>1, RaisedIs
  <2>. QED
    BY <1>3, <2>1, <2>2 DEF Times, Unsigned
<1>. HIDE DEF good
<1>4. k \in good
  BY <1>2, <1>3, Climb
<1>. QED
  BY <1>4 DEF good

-----------------------------------------------------------------------------
(* Pow, and all of Calculate.                                                *)

LEMMA GreatPowers ==
    ASSUME NEW t, NEW a, NEW b,
           Exact(t, "POWER", a, b)[1] \in Int, Exact(t, "POWER", a, b)[2] \in Int,
           Great(Exact(t, "POWER", a, b)[1]) \/ Great(Exact(t, "POWER", a, b)[2])
    PROVE  TooGreat(t, "POWER", a, b)
<1> DEFINE x == Exact(t, "POWER", a, b)
<1>1. \E i \in {1, 2} : x[i] # 0 /\ Abs(x[i]) > MAX \div Abs(x[i])
  <2>. HIDE DEF x
  <2>1. (x[1] \in Int /\ Great(x[1])) \/ (x[2] \in Int /\ Great(x[2]))
    BY DEF x
  <2>. QED
    BY <2>1, GreatIs
<1>. QED
  BY <1>1 DEF TooGreat

(* Pow does what is meant.                                                   *)
PowIsMeant(t, a, b) ==
    LET outcome == Pow(t, a, b)
        x == Exact(t, "POWER", a, b)
    IN /\ outcome[1] \in {"value", "error", "aborted", "undefined"}
       /\ outcome[1] = "error" <=> Meaningless(t, "POWER", a, b)
       /\ outcome[1] = "aborted" <=> t = "rational" /\ a = Zero /\ b[1] < 0 /\ b[2] = 1
       /\ outcome[1] = "value" => outcome[2] \in NumbersOf(t) /\ Same(t, x, outcome[2])
       /\ outcome[1] = "undefined" => t \notin Unsigned /\ TooGreat(t, "POWER", a, b)

LEMMA UnsignedPower ==
    ASSUME NEW t \in Unsigned, NEW a \in NumbersOf(t), NEW b \in NumbersOf(t)
    PROVE  PowIsMeant(t, a, b)
<1>1. t \in AllTypes /\ t # "rational" /\ t # "int"
  BY DEF Unsigned, AllTypes
<1>2. /\ a[1] \in 0..(Modulus - 1) /\ a[2] = 1 /\ b[1] \in 0..(Modulus - 1) /\ b[2] = 1
      /\ Modulus \in Nat /\ Overflown \notin 0..(Modulus - 1)
  BY <1>1, NumberIs, WidthFacts
<1> DEFINE n == IntegerPow(t, a[1], b[1])
<1>3. n = Raised(t, a[1], b[1]) /\ n \in 0..(Modulus - 1)
  <2>1. a[1] \in Carrier(t) /\ b[1] \in 0..Modulus /\ b[1] \in Nat
    BY <1>2 DEF Carrier
  <2>. QED
    BY <2>1, UnsignedPow, RaisedIs DEF Carrier
<1>4. Meaningless(t, "POWER", a, b) <=> a = Zero /\ b = Zero
  BY <1>2 DEF Meaningless
<1>5. ~(b[1] < 0)
  BY <1>2
<1>. HIDE DEF n
<1>6. Pow(t, a, b) = IF a = Zero /\ b = Zero THEN Error ELSE Value(<<n, 1>>)
  BY <1>1, <1>2, <1>3, <1>5 DEF Pow, n
<1>7. Exact(t, "POWER", a, b) = <<n, Raised(t, a[2], b[1])>>
  BY <1>2, <1>3 DEF Exact
<1>8. <<n, 1>> \in NumbersOf(t) /\ Same(t, Exact(t, "POWER", a, b), <<n, 1>>)
  <2> DEFINE x == Exact(t, "POWER", a, b)
  <2>1. n \in Int /\ n - n = 0 /\ 0 % Modulus = 0
    BY <1>2, <1>3, WidthFacts
  <2>2. x[1] = n
    BY <1>7
  <2>3. <<n, 1>> \in NumbersOf(t)
    <3>1. NumbersOf(t) = (0..(Modulus - 1)) \X {1}
      BY <1>1 DEF NumbersOf
    <3>2. n \in 0..(Modulus - 1)
      BY <1>3
    <3>3. <<n, 1>> \in (0..(Modulus - 1)) \X {1}
      BY <3>2
    <3>. QED
      BY <3>1, <3>3
  <2>. HIDE DEF x
  <2>4. (x[1] - <<n, 1>>[1]) % Modulus = 0
    BY <2>1, <2>2
  <2>5. Same(t, x, <<n, 1>>)
    BY <2>4 DEF Same
  <2>. QED
    BY <2>3, <2>5 DEF x
<1>. QED
  BY <1>1, <1>4, <1>6, <1>8 DEF PowIsMeant, Error, Value

LEMMA IntPower ==
    ASSUME NEW a \in NumbersOf("int"), NEW b \in NumbersOf("int")
    PROVE  PowIsMeant("int", a, b)
<1> DEFINE n == IntegerPow("int", a[1], b[1])
           x == Exact("int", "POWER", a, b)
<1>0. "int" \in AllTypes /\ "int" \notin Unsigned
  BY DEF AllTypes, Unsigned
<1>1. /\ a[1] \in Ints /\ a[2] = 1 /\ b[1] \in Ints /\ b[2] = 1
      /\ a[1] \in Int /\ b[1] \in Int /\ Overflown \notin Ints
  BY <1>0, NumberIs, WidthFacts
<1>2. Meaningless("int", "POWER", a, b) <=> (a = Zero /\ b = Zero) \/ b[1] < 0
  BY <1>1 DEF Meaningless
<1>3. CASE (a = Zero /\ b = Zero) \/ b[1] < 0
  BY <1>0, <1>2, <1>3 DEF PowIsMeant, Pow, Error
<1>4. CASE ~((a = Zero /\ b = Zero) \/ b[1] < 0)
  <2>1. b[1] \in 0..Modulus /\ b[1] \in Nat
    BY <1>1, <1>4, WidthFacts
  <2>2. Pow("int", a, b) = IF n = Overflown THEN Undefined ELSE Value(<<n, 1>>)
    BY <1>1, <1>4 DEF Pow
  <2>3. Raised("int", 1, b[1]) = 1
    BY <2>1, RaisedOne
  <2>4. x = <<Raised("int", a[1], b[1]), 1>>
    BY <1>1, <2>1, <2>3 DEF Exact
  <2>5. x[1] \in Int /\ x[2] = 1
    BY <1>0, <1>1, <2>1, <2>4, RaisedZero
  <2>6. (n = x[1] /\ x[1] \in Ints) \/ (n = Overflown /\ Great(x[1]))
    BY <1>1, <2>1, <2>4, SignedPow
  <2>. HIDE DEF n, x
  <2>7. CASE n = x[1] /\ x[1] \in Ints
    <3>1. Pow("int", a, b) = Value(<<n, 1>>)
      BY <1>1, <2>2, <2>7
    <3>2. <<n, 1>> \in NumbersOf("int")
      BY <2>7 DEF NumbersOf, Unsigned
    <3>3. Same("int", x, <<n, 1>>)
      BY <1>0, <2>5, <2>7 DEF Same
    <3>. QED
      BY <1>0, <1>2, <1>4, <3>1, <3>2, <3>3 DEF PowIsMeant, Value, x
  <2>8. CASE n = Overflown /\ Great(x[1])
    <3>1. TooGreat("int", "POWER", a, b)
      BY <2>5, <2>8, GreatPowers DEF x
    <3>. QED
      BY <1>0, <1>2, <1>4, <2>2, <2>8, <3>1 DEF PowIsMeant, Undefined
  <2>. QED
    BY <2>6, <2>7, <2>8
<1>. QED
  BY <1>3, <1>4

(* The numerator and the denominator of a power of a fraction.               *)
LEMMA PowerOfPart ==
    ASSUME NEW base \in Ints, NEW k \in 0..Modulus
    PROVE  LET n == IntegerPow("int", base, k)
               x == Raised("rational", base, k)
           IN /\ n \in Int /\ x \in Int
              /\ n \in Ints => n = x
              /\ n \notin Ints \ {MIN} => Great(x)
              /\ n = 0 <=> base = 0 /\ k # 0
<1> DEFINE n == IntegerPow("int", base, k)
           x == Raised("int", base, k)
<1>1. /\ base \in Int /\ k \in Nat /\ Overflown \in Int /\ Overflown \notin Ints /\ Overflown # 0
      /\ MIN \in Int /\ MAX \in Nat /\ MIN = -(MAX + 1) /\ Ints \subseteq Int
  BY WidthFacts DEF Overflown
<1>2. x = Raised("rational", base, k)
  BY <1>1, RationalRaised
<1>3. x \in Int /\ (x = 0 <=> base = 0 /\ k # 0)
  BY <1>1, RaisedZero DEF Unsigned
<1>4. (n = x /\ x \in Ints) \/ (n = Overflown /\ Great(x))
  BY SignedPow
<1>. HIDE DEF n, x
<1>5. x = MIN => Great(x)
  BY <1>1, <1>3, SquareAtLeast DEF Great
<1>6. Great(x) => x # 0
  BY DEF Great
<1>7. /\ n \in Int /\ x \in Int
      /\ n \in Ints => n = x
      /\ n \notin Ints \ {MIN} => Great(x)
      /\ n = 0 <=> base = 0 /\ k # 0
  BY <1>1, <1>3, <1>4, <1>5, <1>6
<1>. QED
  BY <1>2, <1>7 DEF n

LEMMA RationalPower ==
    ASSUME NEW a \in NumbersOf("rational"), NEW b \in NumbersOf("rational")
    PROVE  PowIsMeant("rational", a, b)
<1> DEFINE x == Exact("rational", "POWER", a, b)
           base == IF b[1] >= 0 THEN a ELSE <<a[2], a[1]>>
           k == Abs(b[1])
           n == IntegerPow("int", base[1], k)
           d == IntegerPow("int", base[2], k)
<1>0. "rational" \in AllTypes /\ "rational" \notin Unsigned
  BY DEF AllTypes, Unsigned
<1>1. /\ a = <<a[1], a[2]>> /\ a[1] \in Ints /\ a[2] \in Ints /\ a[2] # 0
      /\ b[1] \in Ints \ {MIN} /\ (a[1] = 0 <=> a = Zero)
  <2>1. \A c \in NumbersOf("rational") :
            c = <<c[1], c[2]>> /\ c[1] \in Ints \ {MIN} /\ c[2] \in 1..MAX
    BY <1>0, NumberIs
  <2>2. a[2] \in Ints /\ a[2] # 0
    BY <2>1, WidthFacts
  <2>. QED
    BY <1>0, <2>1, <2>2, ZeroIs
<1>2. Meaningless("rational", "POWER", a, b) <=> (a = Zero /\ b = Zero) \/ b[2] # 1
  BY DEF Meaningless
<1>3. CASE (a = Zero /\ b = Zero) \/ b[2] # 1
  <2>1. Pow("rational", a, b) = Error
    BY <1>3 DEF Pow
  <2>2. ~(a = Zero /\ b[1] < 0 /\ b[2] = 1)
    BY <1>3 DEF Zero
  <2>. QED
    BY <1>2, <1>3, <2>1, <2>2 DEF PowIsMeant, Error
<1>4. CASE ~((a = Zero /\ b = Zero) \/ b[2] # 1)
  <2>1. Pow("rational", a, b) = Rational(n, d)
    BY <1>4 DEF Pow, RationalPow
  <2>2. k \in 0..Modulus /\ (b[1] >= 0 => k = b[1]) /\ (~(b[1] >= 0) => k = -b[1] /\ k # 0)
    BY <1>1, WidthFacts DEF Abs
  <2>3. base[1] \in Ints /\ base[2] \in Ints
    BY <1>1
  <2>4. base[2] = 0 <=> a = Zero /\ ~(b[1] >= 0)
    BY <1>1
  <2>5. x = <<Raised("rational", base[1], k), Raised("rational", base[2], k)>>
    <3>1. CASE b[1] >= 0
      BY <2>2, <3>1 DEF Exact
    <3>2. CASE ~(b[1] >= 0)
      BY <2>2, <3>2 DEF Exact
    <3>. QED
      BY <3>1, <3>2
  <2>6. x[1] = Raised("rational", base[1], k) /\ x[2] = Raised("rational", base[2], k)
    BY <2>5
  <2>. HIDE DEF x, base, k
  <2>7. /\ n \in Int /\ d \in Int /\ x[1] \in Int /\ x[2] \in Int
        /\ n \in Ints => n = x[1]
        /\ d \in Ints => d = x[2]
        /\ n \notin Ints \ {MIN} => Great(x[1])
        /\ d \notin Ints \ {MIN} => Great(x[2])
        /\ d = 0 <=> base[2] = 0 /\ k # 0
    BY <2>2, <2>3, <2>6, PowerOfPart
  <2>8. base[2] = 0 => n \in Ints
    <3>1. SUFFICES ASSUME base[2] = 0 PROVE n \in Ints
      OBVIOUS
    <3>2. base[1] = 1
      BY <2>4, <3>1 DEF base, Zero
    <3>3. Raised("rational", base[1], k) = 1
      BY <2>2, <3>2, RaisedOne
    <3>4. ~Great(1) /\ Raised("rational", base[1], k) = x[1]
      BY <2>6, <3>3, WidthFacts DEF Great
    <3>. HIDE DEF n
    <3>. QED
      BY <2>7, <3>3, <3>4
  <2>. HIDE DEF n, d
  <2> DEFINE outcome == Rational(n, d)
  <2>9. /\ outcome[1] \in {"value", "aborted", "undefined"}
        /\ outcome[1] = "value" => /\ outcome[2] \in Fractions
                                   /\ outcome[2][1] * d = n * outcome[2][2]
        /\ outcome[1] = "aborted" <=> n \in Ints /\ d = 0
        /\ outcome[1] = "undefined" => ~({n, d} \subseteq Ints \ {MIN})
    BY <2>7, RationalIs
  <2>10. outcome[1] = "value" => n \in Ints /\ d \in Ints
    <3>1. ASSUME ~({n, d} \subseteq Ints) PROVE outcome = Undefined
      <4>1. 0 \in Ints
        BY WidthFacts
      <4>. QED
        BY <3>1, <4>1 DEF Rational
    <3>2. Undefined[1] # "value"
      BY DEF Undefined
    <3>. HIDE DEF outcome
    <3>. QED
      BY <3>1, <3>2
  <2>. HIDE DEF outcome
  <2>11. outcome[1] = "aborted" <=> a = Zero /\ b[1] < 0
    <3>1. ~(b[1] >= 0) <=> b[1] < 0
      BY <1>1, WidthFacts
    <3>2. d = 0 <=> base[2] = 0
      BY <2>2, <2>4, <2>7
    <3>. QED
      BY <2>4, <2>8, <2>9, <3>1, <3>2
  <2>12. ASSUME outcome[1] = "value"
         PROVE  outcome[2] \in NumbersOf("rational") /\ Same("rational", x, outcome[2])
    <3>1. n = x[1] /\ d = x[2] /\ outcome[2] \in Fractions
      BY <2>7, <2>9, <2>10, <2>12
    <3>2. outcome[2] \in NumbersOf("rational")
      BY <1>0, <3>1 DEF NumbersOf
    <3>3. outcome[2][1] \in Int /\ outcome[2][2] \in Int
      BY <1>0, <3>2, NumberIs
    <3>4. x[1] * outcome[2][2] = outcome[2][1] * x[2]
      BY <2>9, <2>12, <3>1
    <3>. QED
      BY <1>0, <3>2, <3>4 DEF Same
  <2>13. ASSUME outcome[1] = "undefined"
         PROVE  TooGreat("rational", "POWER", a, b)
    <3>1. Great(x[1]) \/ Great(x[2])
      BY <2>7, <2>9, <2>13
    <3>. QED
      BY <2>7, <3>1, GreatPowers DEF x
  <2>14. Pow("rational", a, b) = outcome /\ ~Meaningless("rational", "POWER", a, b) /\ b[2] = 1
    BY <1>2, <1>4, <2>1 DEF outcome
  <2>. QED
    BY <1>0, <2>9, <2>11, <2>12, <2>13, <2>14 DEF PowIsMeant, x
<1>. QED
  BY <1>3, <1>4

(* Pow does what is meant, for every type.                                   *)
LEMMA PowIs ==
    ASSUME NEW t \in AllTypes, NEW a \in NumbersOf(t), NEW b \in NumbersOf(t)
    PROVE  PowIsMeant(t, a, b)
BY UnsignedPower, IntPower, RationalPower DEF AllTypes, Unsigned

(* An outcome of the operation op.                                           *)
IsMeant(t, op, a, b, outcome) ==
    LET x == Exact(t, op, a, b) IN
    /\ outcome[1] \in {"value", "error", "aborted", "undefined"}
    /\ outcome[1] = "error" <=> Meaningless(t, op, a, b)
    /\ outcome[1] = "aborted" <=>
           t = "rational" /\ op = "POWER" /\ a = Zero /\ b[1] < 0 /\ b[2] = 1
    /\ outcome[1] = "value" => outcome[2] \in NumbersOf(t) /\ Same(t, x, outcome[2])
    /\ outcome[1] = "undefined" => t \notin Unsigned /\ TooGreat(t, op, a, b)

LEMMA TooGreatIs ==
    ASSUME NEW t \in AllTypes, NEW op \in Operations \ {"POWER"}, NEW a, NEW b
    PROVE  LET x == Exact(t, op, a, b) IN
           /\ t = "int" /\ x[1] \notin Ints => TooGreat(t, op, a, b)
           /\ t = "rational" /\ ~({x[1], x[2], a[1] * b[2], b[1] * a[2]} \subseteq Ints \ {MIN})
              => TooGreat(t, op, a, b)
           /\ t = "int" \/ t = "rational" => t \notin Unsigned
BY DEF TooGreat, Unsigned

LEMMA SumIsMeant ==
    ASSUME NEW t \in AllTypes, NEW a \in NumbersOf(t), NEW b \in NumbersOf(t),
           NEW op, NEW sign \in {1, -1},
           op = IF sign = 1 THEN "ADDITION" ELSE "SUBTRACTION"
    PROVE  IsMeant(t, op, a, b, Sum(t, a, sign, b))
<1> DEFINE outcome == Sum(t, a, sign, b)
           p == a[1] * b[2]
           q == b[1] * a[2]
           x == <<p + sign * q, a[2] * b[2]>>
<1>1. /\ outcome[1] \in {"value", "undefined"}
      /\ outcome[1] = "value" => outcome[2] \in NumbersOf(t) /\ Same(t, x, outcome[2])
      /\ outcome[1] = "undefined" =>
             \/ t = "int" /\ x[1] \notin Ints
             \/ /\ t = "rational"
                /\ ~({x[1], x[2], p, q} \subseteq Ints \ {MIN})
  <2>1. IsSum(t, a, sign, b, outcome)
    <3>. HIDE DEF outcome
    <3>. QED
      BY SumIs DEF outcome
  <2>. HIDE DEF outcome
  <2>. QED
    BY <2>1 DEF IsSum
<1>2. p \in Int /\ q \in Int
  <2>1. a[1] \in Int /\ a[2] \in Int /\ b[1] \in Int /\ b[2] \in Int
    BY NumberIs
  <2>. QED
    BY <2>1
<1>3. Exact(t, op, a, b) = x
  <2>1. CASE sign = 1
    <3>1. Exact(t, op, a, b) = <<p + q, a[2] * b[2]>>
      BY <2>1 DEF Exact
    <3>. HIDE DEF p, q
    <3>2. p + q = p + sign * q
      BY <1>2, <2>1
    <3>. QED
      BY <3>1, <3>2
  <2>2. CASE sign = -1
    <3>0. -1 # 1
      OBVIOUS
    <3>1. Exact(t, op, a, b) = <<p - q, a[2] * b[2]>>
      BY <2>2, <3>0 DEF Exact
    <3>. HIDE DEF p, q
    <3>2. p - q = p + sign * q
      BY <1>2, <2>2
    <3>. QED
      BY <3>1, <3>2
  <2>. QED
    BY <2>1, <2>2
<1>4. op \in Operations \ {"POWER"} /\ op # "DIVISION"
  BY DEF Operations
<1>. HIDE DEF outcome, x
<1>5. outcome[1] = "undefined" => t \notin Unsigned /\ TooGreat(t, op, a, b)
  BY <1>1, <1>3, <1>4, TooGreatIs
<1>6. ~Meaningless(t, op, a, b)
  BY <1>4 DEF Meaningless
<1>. QED
  BY <1>1, <1>3, <1>4, <1>5, <1>6 DEF IsMeant, outcome

LEMMA MultiplicationIsMeant ==
    ASSUME NEW t \in AllTypes, NEW a \in NumbersOf(t), NEW b \in NumbersOf(t)
    PROVE  IsMeant(t, "MULTIPLICATION", a, b, Mul(t, a, b))
<1> DEFINE outcome == Mul(t, a, b)
           x == <<a[1] * b[1], a[2] * b[2]>>
<1>1. /\ outcome[1] \in {"value", "undefined"}
      /\ outcome[1] = "value" => outcome[2] \in NumbersOf(t) /\ Same(t, x, outcome[2])
      /\ outcome[1] = "undefined" =>
             \/ t = "int" /\ x[1] \notin Ints
             \/ t = "rational" /\ ~({x[1], x[2]} \subseteq Ints \ {MIN})
  BY MulIs
<1>2. Exact(t, "MULTIPLICATION", a, b) = x
  BY DEF Exact
<1>. HIDE DEF outcome, x
<1>3. outcome[1] = "undefined" => t \notin Unsigned /\ TooGreat(t, "MULTIPLICATION", a, b)
  BY <1>1, <1>2, TooGreatIs DEF Operations
<1>4. ~Meaningless(t, "MULTIPLICATION", a, b)
  BY DEF Meaningless
<1>. QED
  BY <1>1, <1>2, <1>3, <1>4 DEF IsMeant, outcome

LEMMA DivisionIsMeant ==
    ASSUME NEW t \in AllTypes, NEW a \in NumbersOf(t), NEW b \in NumbersOf(t)
    PROVE  IsMeant(t, "DIVISION", a, b, Div(t, a, b))
<1> DEFINE outcome == Div(t, a, b)
           x == Exact(t, "DIVISION", a, b)
<1>1. x = IF t = "rational" THEN <<a[1] * b[2], a[2] * b[1]>>
          ELSE <<Truncated(a[1], b[1]), 1>>
  BY DEF Exact
<1>2. /\ outcome[1] \in {"value", "undefined", "error"}
      /\ outcome[1] = "error" <=> b = Zero
      /\ outcome[1] = "value" => outcome[2] \in NumbersOf(t) /\ Same(t, x, outcome[2])
      /\ outcome[1] = "undefined" =>
             \/ t = "int" /\ x[1] \notin Ints
             \/ t = "rational" /\ ~({x[1], x[2]} \subseteq Ints \ {MIN})
  <2>. HIDE DEF outcome, x
  <2>. QED
    BY <1>1, DivIs DEF outcome
<1>. HIDE DEF outcome
<1>3. outcome[1] = "undefined" => t \notin Unsigned /\ TooGreat(t, "DIVISION", a, b)
  <2>1. /\ t = "int" /\ x[1] \notin Ints => TooGreat(t, "DIVISION", a, b)
        /\ t = "rational" /\ ~({x[1], x[2], a[1] * b[2], b[1] * a[2]} \subseteq Ints \ {MIN})
              => TooGreat(t, "DIVISION", a, b)
        /\ t = "int" \/ t = "rational" => t \notin Unsigned
    BY TooGreatIs DEF Operations
  <2>. HIDE DEF x
  <2>. QED
    BY <1>2, <2>1
<1>4. Meaningless(t, "DIVISION", a, b) <=> b = Zero
  BY DEF Meaningless
<1>. QED
  BY <1>2, <1>3, <1>4 DEF IsMeant, outcome

(* Every operation of the calculator gives a number of its type, the exact   *)
(* one.                                                                      *)
LEMMA CalculateIs ==
    ASSUME NEW t \in AllTypes, NEW op \in Operations,
           NEW a \in NumbersOf(t), NEW b \in NumbersOf(t)
    PROVE  IsMeant(t, op, a, b, Calculate(t, op, a, b))
<1>1. CASE op = "ADDITION"
  <2>1. IsMeant(t, "ADDITION", a, b, Sum(t, a, 1, b))
    BY SumIsMeant
  <2>. QED
    BY <1>1, <2>1 DEF Calculate
<1>2. CASE op = "SUBTRACTION"
  <2>1. IsMeant(t, "SUBTRACTION", a, b, Sum(t, a, -1, b))
    BY SumIsMeant
  <2>. QED
    BY <1>2, <2>1 DEF Calculate
<1>3. CASE op = "MULTIPLICATION"
  BY <1>3, MultiplicationIsMeant DEF Calculate
<1>4. CASE op = "DIVISION"
  BY <1>4, DivisionIsMeant DEF Calculate
<1>5. CASE op = "POWER"
  BY <1>5, PowIs DEF Calculate, PowIsMeant, IsMeant
<1>. QED
  BY <1>1, <1>2, <1>3, <1>4, <1>5 DEF Operations

(* For every width, type, operation and operands, Calculate gives the exact  *)
(* result, an error exactly if there is none, an abort only for zero to a    *)
(* negative power, and undefined behaviour only if the numbers on the way do *)
(* not fit (Calculator of calculator.h, Rational of rational.h, IntegerPow   *)
(* of pow.h).                                                                *)
THEOREM CalculateIsMeant ==
    ASSUME NEW t \in AllTypes, NEW op \in Operations,
           NEW a \in NumbersOf(t), NEW b \in NumbersOf(t)
    PROVE  AsMeant(t, op, a, b)
BY CalculateIs DEF IsMeant, AsMeant

-----------------------------------------------------------------------------
(* The numbers of the controllers.                                           *)

Outcomes == {"value", "aborted", "undefined"}

(* Reading and negating either give a number or end the program.             *)
LEMMA ReadOutcomes ==
    ASSUME NEW t \in AllTypes, NEW s \in Seq(CharsOf(t))
    PROVE  FromString(t, s)[1] \in Outcomes
<1>1. CASE t \in {"byte", "size", "int"}
  BY <1>1 DEF FromString, Wrapped, Value, Outcomes
<1>2. CASE t = "rational"
  <2>1. FromString(t, s) = ReadRational(s)
    BY <1>2 DEF FromString
  <2>2. Upper(s) \in Seq(CharsOf(t)) /\ Lower(s) \in Seq(CharsOf(t))
    BY PartsAre
  <2>3. Len(s) \in Nat /\ Len(Upper(s)) \in Nat /\ Len(Lower(s)) \in Nat
    BY <2>2
  <2>4. Meant(s) \in Int /\ Meant(Upper(s)) \in Int /\ Meant(Lower(s)) \in Int
    BY <2>3, MeantIs
  <2>5. \A n, d \in Int : Rational(n, d)[1] \in Outcomes
    BY RationalIs DEF Outcomes
  <2>6. Value(Zero)[1] \in Outcomes
    BY DEF Value, Outcomes
  <2>7. 1 \in Int
    OBVIOUS
  <2>8. /\ Rational(Meant(s), 1)[1] \in Outcomes
        /\ Rational(Meant(Upper(s)), Meant(Lower(s)))[1] \in Outcomes
    BY <2>4, <2>5, <2>7
  <2>9. ReadRational(s) \in {Value(Zero), Rational(Meant(s), 1),
                             Rational(Meant(Upper(s)), Meant(Lower(s)))}
    BY DEF ReadRational
  <2>. QED
    BY <2>1, <2>6, <2>8, <2>9
<1>. QED
  BY <1>1, <1>2 DEF AllTypes

LEMMA NegateOutcomes ==
    ASSUME NEW t \in AllTypes, NEW a \in NumbersOf(t)
    PROVE  Negate(t, a)[1] \in Outcomes
<1>1. a[1] \in Int /\ a[2] \in Int /\ -a[1] \in Int
  <2>1. a[1] \in Int /\ a[2] \in Nat \ {0}
    BY NumberIs
  <2>. QED
    BY <2>1
<1>2. Rational(-a[1], a[2])[1] \in Outcomes
  BY <1>1, RationalIs DEF Outcomes
<1>3. t # "rational" => Result(t, -a[1])[1] \in Outcomes
  BY <1>1, IntegralIs, ResultIs DEF Outcomes
<1>. QED
  BY <1>2, <1>3 DEF Negate

(* Where the number of a controller comes from: it was printed, or it is     *)
(* what was read from the text typed.                                        *)
IsText(t, shown, n) ==
    \/ shown = Printed(n)
    \/ /\ shown = Typed(shown[2])
       /\ shown[2] \in Seq(CharsOf(t))
       /\ FromString(t, shown[2])[1] = "value" /\ FromString(t, shown[2])[2] = n

(* What holds of each controller.                                            *)
Own(t) ==
    /\ operation[t] \in Operations \cup {None}
    /\ active[t] \in NumbersOf(t)
    /\ result[t] \in NumbersOf(t)
    /\ mem[t] # <<>> => mem[t][1] \in NumbersOf(t)
    /\ input[t] \in Seq(CharsOf(t))
    /\ IsText(t, text[t], active[t])

NumInv ==
    /\ status \in {"running", "aborted", "undefined"}
    /\ \A t \in Types : Own(t)

LEMMA InitNumInv == Init => NumInv
<1> SUFFICES ASSUME Init, NEW t \in Types PROVE Own(t)
  BY DEF NumInv, Init
<1>0. t \in AllTypes
  BY ControllerAssumption
<1>1. Zero \in NumbersOf(t)
  BY <1>0, ZeroIsNumber
<1>2. /\ operation[t] = None /\ active[t] = Zero /\ result[t] = Zero /\ mem[t] = <<>>
      /\ input[t] = <<>> /\ text[t] = Typed(<<>>)
  BY DEF Init
<1>3. <<>> \in Seq(CharsOf(t)) /\ Len(<<>>) = 0
  OBVIOUS
<1>4. FromString(t, <<>>) = Value(Zero)
  <2>1. ~HasDigits(<<>>) /\ Slashes(<<>>) = {}
    BY DEF HasDigits, Slashes
  <2>2. Meant(<<>>) = 0 /\ Magnitude(<<>>) = 0
    BY <1>3, <2>1, MeantIs, MagnitudeIs
  <2>3. ReadSigned(<<>>) = 0
    BY <2>2, WidthFacts DEF ReadSigned
  <2>4. \A limit \in Nat \ {0} : ReadUnsigned(limit, <<>>) = 0
    BY <1>3, <2>2, UnsignedReadAsMeant
  <2>5. Modulus \in Nat \ {0} /\ Modulus * Modulus \in Nat \ {0} /\ 0 % Modulus = 0
    BY WidthFacts
  <2>6. ReadRational(<<>>) = Value(Zero)
    BY <2>1 DEF ReadRational, Fails, Upper
  <2>7. /\ ReadUnsigned(Modulus, <<>>) = 0
        /\ Wrapped(ReadUnsigned(Modulus * Modulus, <<>>)) = Value(Zero)
    BY <2>4, <2>5 DEF Wrapped, Zero
  <2>8. Value(<<0, 1>>) = Value(Zero)
    BY DEF Zero
  <2>. QED
    BY <1>0, <2>3, <2>6, <2>7, <2>8 DEF FromString, AllTypes
<1>5. IsText(t, Typed(<<>>), Zero)
  BY <1>3, <1>4 DEF IsText, Typed, Value
<1>. QED
  BY <1>1, <1>2, <1>3, <1>5 DEF Own, Init

(* A key changes the controller it is bound to and no other.                 *)
LEMMA OnlyBound ==
    ASSUME NumInv, Own(bound)', status' \in {"running", "aborted", "undefined"},
           \A t \in Types \ {bound} :
               UNCHANGED <<operation[t], active[t], result[t], mem[t], input[t], text[t]>>,
           bound' = bound
    PROVE  NumInv'
<1>1. ASSUME NEW t \in Types PROVE Own(t)'
  <2>1. CASE t = bound
    BY <2>1 DEF Own
  <2>2. CASE t # bound
    BY <2>2 DEF NumInv, Own
  <2>. QED
    BY <2>1, <2>2
<1>. QED
  BY <1>1 DEF NumInv

LEMMA UnchangedNumInv ==
    ASSUME NumInv, UNCHANGED <<operation, active, result, mem, input, text>>,
           status' \in {"running", "aborted", "undefined"}
    PROVE  NumInv'
BY DEF NumInv, Own

LEMMA BoundIs ==
    ASSUME Inv, NumInv
    PROVE  bound \in Types /\ bound \in AllTypes /\ Own(bound)
BY ControllerAssumption DEF Inv, Shape, NumInv

(* A key that changes the input, or stops the program.                       *)
LEMMA InputNumInv ==
    ASSUME Inv, NumInv, Click, NEW isNumber \in BOOLEAN, NEW s \in Seq(CharsOf(bound)), NEW outcome,
           Input(isNumber, s, outcome),
           outcome[1] \in Outcomes,
           outcome[1] = "value" => outcome[2] \in NumbersOf(bound),
           ~isNumber => outcome = FromString(bound, s)
    PROVE  NumInv'
<1>1. CASE outcome[1] = "value"
  <2> DEFINE n == outcome[2]
             shown == IF isNumber THEN Printed(n) ELSE Typed(s)
  <2>1. /\ input' = [input EXCEPT ![bound] = s]
        /\ active' = [active EXCEPT ![bound] = n]
        /\ text' = [text EXCEPT ![bound] = shown]
        /\ UNCHANGED <<operation, result, mem, status, bound>>
    BY <1>1 DEF Input, SetInput, UpdateInputInView, arithmetic, Click
  <2>2. bound \in Types /\ Own(bound)
    BY BoundIs
  <2>3. IsText(bound, shown, n)
    BY <1>1 DEF IsText, Typed
  <2>. HIDE DEF shown, n
  <2>4. input'[bound] = s /\ active'[bound] = n /\ text'[bound] = shown
    BY <2>1, <2>2 DEF Inv, Shape
  <2>5. Own(bound)'
    BY <1>1, <2>1, <2>2, <2>3, <2>4 DEF Own, n
  <2>6. \A t \in Types \ {bound} :
            UNCHANGED <<operation[t], active[t], result[t], mem[t], input[t], text[t]>>
    BY <2>1 DEF Inv, Shape
  <2>. QED
    BY <2>1, <2>5, <2>6, OnlyBound DEF NumInv
<1>2. CASE outcome[1] # "value"
  BY <1>2, UnchangedNumInv DEF Input, Stop, Outcomes, arithmetic, number, cached
<1>. QED
  BY <1>1, <1>2

LEMMA TypedNumInv ==
    ASSUME Inv, NumInv, Click, NEW s \in Seq(CharsOf(bound)), SetInputAsString(s)
    PROVE  NumInv'
<1> DEFINE outcome == FromString(bound, s)
<1>1. Input(FALSE, s, outcome) /\ bound \in AllTypes
  BY BoundIs DEF SetInputAsString
<1>2. outcome[1] \in Outcomes /\ (outcome[1] = "value" => outcome[2] \in NumbersOf(bound))
  BY <1>1, ReadOutcomes, FromStringIs
<1>. HIDE DEF outcome
<1>. QED
  BY <1>1, <1>2, InputNumInv DEF outcome

LEMMA OperationNumInv ==
    ASSUME Inv, NumInv, NEW op \in Operations, OnOperation(op)
    PROVE  NumInv'
<1>1. /\ bound' = bound /\ operation' = [operation EXCEPT ![bound] = op]
      /\ input' = [input EXCEPT ![bound] = <<>>]
      /\ result' = [result EXCEPT ![bound] = active[bound]] \/ result' = result
      /\ UNCHANGED <<active, mem, text, status>>
  BY DEF OnOperation, Click
<1>2. bound \in Types /\ Own(bound)
  BY BoundIs
<1>3. <<>> \in Seq(CharsOf(bound))
  OBVIOUS
<1>4. /\ operation'[bound] = op /\ input'[bound] = <<>>
      /\ result'[bound] \in {active[bound], result[bound]}
  BY <1>1, <1>2 DEF Inv, Shape
<1>5. Own(bound)'
  BY <1>1, <1>2, <1>3, <1>4 DEF Own
<1>6. \A t \in Types \ {bound} :
          UNCHANGED <<operation[t], active[t], result[t], mem[t], input[t], text[t]>>
  BY <1>1 DEF Inv, Shape
<1>. QED
  BY <1>1, <1>5, <1>6, OnlyBound DEF NumInv

(* A number printed in place of the input.                                   *)
LEMMA PrintedNumInv ==
    ASSUME Inv, NumInv, NEW n \in NumbersOf(bound), SetInputAsNumber(n), bound' = bound,
           UNCHANGED <<mem, status>>,
           operation' = [operation EXCEPT ![bound] = None] \/ operation' = operation,
           result' = [result EXCEPT ![bound] = n] \/ result' = result
    PROVE  NumInv'
<1>1. /\ input' = [input EXCEPT ![bound] = <<>>]
      /\ active' = [active EXCEPT ![bound] = n]
      /\ text' = [text EXCEPT ![bound] = Printed(n)]
  BY DEF SetInputAsNumber, SetInput, UpdateInputInView
<1>2. bound \in Types /\ Own(bound)
  BY BoundIs
<1>3. <<>> \in Seq(CharsOf(bound)) /\ IsText(bound, Printed(n), n)
  BY DEF IsText
<1>4. /\ operation'[bound] \in {None, operation[bound]}
      /\ input'[bound] = <<>> /\ active'[bound] = n
      /\ text'[bound] = Printed(n) /\ result'[bound] \in {n, result[bound]}
  BY <1>1, <1>2 DEF Inv, Shape
<1>5. Own(bound)'
  BY <1>2, <1>3, <1>4 DEF Own
<1>6. \A t \in Types \ {bound} :
          UNCHANGED <<operation[t], active[t], result[t], mem[t], input[t], text[t]>>
  BY <1>1 DEF Inv, Shape
<1>. QED
  BY <1>5, <1>6, OnlyBound DEF NumInv

LEMMA EqualsNumInv ==
    ASSUME Inv, NumInv, PressEquals
    PROVE  NumInv'
<1> DEFINE outcome == Calculate(bound, operation[bound], result[bound], active[bound])
<1>1. bound \in AllTypes /\ Own(bound)
  BY BoundIs
<1>2. operation[bound] \in Operations
  BY <1>1 DEF PressEquals, Own
<1>3. /\ outcome[1] \in {"value", "error", "aborted", "undefined"}
      /\ outcome[1] = "value" => outcome[2] \in NumbersOf(bound)
  BY <1>1, <1>2, CalculateIs DEF Own, IsMeant
<1>4. CASE outcome[1] = "value"
  <2>1. /\ result' = [result EXCEPT ![bound] = outcome[2]]
        /\ SetInputAsNumber(outcome[2])
        /\ operation' = [operation EXCEPT ![bound] = None]
        /\ UNCHANGED <<mem, status, bound>>
    BY <1>4 DEF PressEquals, Completed, Click
  <2>. HIDE DEF outcome
  <2>. QED
    BY <1>3, <1>4, <2>1, PrintedNumInv
<1>5. CASE outcome[1] # "value"
  <2>1. UNCHANGED <<arithmetic, number, cached>> /\ status' \in {status, outcome[1]}
        /\ (outcome[1] = "error" => status' = status)
    BY <1>3, <1>5 DEF PressEquals, Stop
  <2>. HIDE DEF outcome
  <2>2. status' \in {"running", "aborted", "undefined"}
    BY <1>3, <1>5, <2>1 DEF NumInv
  <2>. QED
    BY <2>1, <2>2, UnchangedNumInv DEF arithmetic, number, cached
<1>. QED
  BY <1>4, <1>5

LEMMA ClearNumInv ==
    ASSUME Inv, NumInv, PressClear
    PROVE  NumInv'
<1>1. Zero \in NumbersOf(bound)
  BY BoundIs, ZeroIsNumber
<1>2. /\ SetInputAsNumber(Zero) /\ operation' = [operation EXCEPT ![bound] = None]
      /\ UNCHANGED <<bound, result, mem, status>>
  BY DEF PressClear, Click
<1>. QED
  BY <1>1, <1>2, PrintedNumInv

LEMMA MemLoadNumInv ==
    ASSUME Inv, NumInv, PressMemLoad
    PROVE  NumInv'
<1>1. mem[bound][1] \in NumbersOf(bound)
  BY BoundIs DEF PressMemLoad, Own
<1>2. SetInputAsNumber(mem[bound][1]) /\ UNCHANGED <<bound, operation, result, mem, status>>
  BY DEF PressMemLoad, Click, arithmetic
<1>. QED
  BY <1>1, <1>2, PrintedNumInv

LEMMA MemoryNumInv ==
    ASSUME Inv, NumInv, PressMemSave \/ PressMemClear
    PROVE  NumInv'
<1>1. /\ \E m \in {<<active[bound]>>, <<>>} : mem' = [mem EXCEPT ![bound] = m]
      /\ UNCHANGED <<bound, operation, result, number, text, status>>
  BY DEF PressMemSave, PressMemClear, Click
<1>2. PICK m \in {<<active[bound]>>, <<>>} : mem' = [mem EXCEPT ![bound] = m]
  BY <1>1
<1>3. bound \in Types /\ Own(bound)
  BY BoundIs
<1>4. mem'[bound] = m
  BY <1>2, <1>3 DEF Inv, Shape
<1>5. m # <<>> => m[1] \in NumbersOf(bound)
  BY <1>2, <1>3 DEF Own
<1>6. Own(bound)'
  BY <1>1, <1>3, <1>4, <1>5 DEF Own, number
<1>7. \A t \in Types \ {bound} :
          UNCHANGED <<operation[t], active[t], result[t], mem[t], input[t], text[t]>>
  BY <1>1, <1>2 DEF Inv, Shape, number
<1>. QED
  BY <1>1, <1>6, <1>7, OnlyBound DEF NumInv

LEMMA DigitNumInv ==
    ASSUME Inv, NumInv, NEW digit \in DigitKeys, PressDigitKey(digit)
    PROVE  NumInv'
<1>1. digit + 1 \in 1..10
  BY ControllerAssumption
<1>2. Digits[digit + 1] \in CharsOf(bound)
  BY <1>1 DEF DigitChars, CharsOf
<1>3. input[bound] \in Seq(CharsOf(bound))
  BY BoundIs DEF Own
<1> DEFINE C == CharsOf(bound)
           c == Digits[digit + 1]
<1>4. Append(input[bound], c) \in Seq(C)
  <2>. HIDE DEF C, c
  <2>. QED
    BY <1>2, <1>3 DEF C, c
<1>. QED
  BY <1>4, TypedNumInv DEF PressDigitKey

LEMMA PlusMinusNumInv ==
    ASSUME Inv, NumInv, PressPlusMinus
    PROVE  NumInv'
<1> DEFINE C == CharsOf(bound)
           s == input[bound]
<1>1. bound \in AllTypes /\ active[bound] \in NumbersOf(bound) /\ s \in Seq(C)
  BY BoundIs DEF Own
<1>2. CASE as_number[bound]
  <2> DEFINE outcome == Negate(bound, active[bound])
  <2>1. Input(TRUE, <<>>, outcome) /\ Click
    BY <1>2 DEF PressPlusMinus
  <2>2. outcome[1] \in Outcomes /\ (outcome[1] = "value" => outcome[2] \in NumbersOf(bound))
    BY <1>1, NegateIs, NegateOutcomes
  <2>3. <<>> \in Seq(C)
    OBVIOUS
  <2>. HIDE DEF outcome
  <2>. QED
    BY <2>1, <2>2, <2>3, InputNumInv
<1>3. CASE ~as_number[bound]
  <2>1. CASE IsNegative(s)
    <3>1. Tail(s) \in Seq(C)
      <4>. HIDE DEF C
      <4>. QED
        BY <1>1, <2>1 DEF IsNegative
    <3>. QED
      BY <1>3, <2>1, <3>1, TypedNumInv DEF PressPlusMinus
  <2>2. CASE ~IsNegative(s)
    <3>1. "-" \in C
      BY DEF CharsOf
    <3>2. <<"-">> \o s \in Seq(C)
      <4>. HIDE DEF C, s
      <4>. QED
        BY <1>1, <3>1
    <3>. QED
      BY <1>3, <2>2, <3>2, TypedNumInv DEF PressPlusMinus
  <2>. QED
    BY <2>1, <2>2
<1>. QED
  BY <1>2, <1>3

LEMMA BackspaceNumInv ==
    ASSUME Inv, NumInv, PressBackspace
    PROVE  NumInv'
<1> DEFINE C == CharsOf(bound)
           s == input[bound]
<1>1. s \in Seq(C)
  BY BoundIs DEF Own
<1>2. s # <<>>
  BY DEF PressBackspace
<1>3. Front(s) \in Seq(C)
  <2>. HIDE DEF C, s
  <2>. QED
    BY <1>1, <1>2 DEF Front
<1>. QED
  BY <1>3, TypedNumInv DEF PressBackspace

LEMMA ExtraKeyNumInv ==
    ASSUME Inv, NumInv, PressExtraKey
    PROVE  NumInv'
<1> DEFINE C == CharsOf(bound)
           s == input[bound]
<1>1. s \in Seq(C)
  BY BoundIs DEF Own
<1>2. "/" \in C
  BY DEF PressExtraKey, CharsOf
<1>3. Append(s, "/") \in Seq(C)
  <2>. HIDE DEF C, s
  <2>. QED
    BY <1>1, <1>2
<1>. QED
  BY <1>3, TypedNumInv DEF PressExtraKey

LEMMA NextNumInv == Inv /\ NumInv /\ [Next]_vars => NumInv'
<1> SUFFICES ASSUME Inv, NumInv, [Next]_vars PROVE NumInv'
  OBVIOUS
<1>1. CASE DigitKey
  BY <1>1, DigitNumInv DEF DigitKey
<1>2. CASE OperationKey
  BY <1>2, OperationNumInv DEF OperationKey
<1>3. CASE PressEquals
  BY <1>3, EqualsNumInv
<1>4. CASE PressClear
  BY <1>4, ClearNumInv
<1>5. CASE PressMemSave \/ PressMemClear
  BY <1>5, MemoryNumInv
<1>6. CASE PressMemLoad
  BY <1>6, MemLoadNumInv
<1>7. CASE PressPlusMinus
  BY <1>7, PlusMinusNumInv
<1>8. CASE PressBackspace
  BY <1>8, BackspaceNumInv
<1>9. CASE PressExtraKey
  BY <1>9, ExtraKeyNumInv
<1>10. CASE TypeKey
  BY <1>10, UnchangedNumInv DEF TypeKey, ChooseType, arithmetic, number, cached, NumInv
<1>11. CASE UNCHANGED vars
  BY <1>11, UnchangedNumInv DEF vars, arithmetic, number, cached, NumInv
<1>. QED
  BY <1>1, <1>2, <1>3, <1>4, <1>5, <1>6, <1>7, <1>8, <1>9, <1>10, <1>11 DEF Next, ControlKey

LEMMA NumInvariance == Spec => [](Inv /\ NumInv)
BY InitInv, NextInv, InitNumInv, NextNumInv, PTL DEF Spec

(* The numbers of a controller are of its type: a rational number is always  *)
(* in lowest terms with a positive denominator (Reduction of rational.h).    *)
THEOREM TypeCorrect == Spec => []TypeOK
<1>1. Inv /\ NumInv => TypeOK
  BY DEF Inv, Shape, NumInv, Own, TypeOK
<1>. QED
  BY <1>1, NumInvariance, PTL

(* The next key works on the number on display, the one printed or the one   *)
(* that the text typed spells out (SetInputAsString and FromString of        *)
(* controller.h).                                                            *)
THEOREM DisplayIsMeant == Spec => []ShownIsMeant
<1>1. ASSUME Inv, NumInv PROVE ShownIsMeant
  <2>1. bound \in AllTypes /\ IsText(bound, text[bound], active[bound])
    BY <1>1, BoundIs DEF Own
  <2>2. l_result = text[bound] \/ l_result = ErrorText
    BY <1>1 DEF Inv, WindowShowsBound
  <2>3. ASSUME l_result[1] = "printed" PROVE active[bound] = l_result[2]
    BY <2>1, <2>2, <2>3 DEF IsText, Printed, Typed, ErrorText
  <2>4. ASSUME l_result[1] = "typed"
        PROVE  LET s == l_result[2] IN
               /\ Fitting(bound, s) =>
                      active[bound][1] * Spelled(s)[2] = Spelled(s)[1] * active[bound][2]
               /\ ~HasDigits(s) => active[bound] = Zero
    <3> DEFINE s == l_result[2]
    <3>1. /\ s \in Seq(CharsOf(bound))
          /\ FromString(bound, s)[1] = "value" /\ FromString(bound, s)[2] = active[bound]
      BY <2>1, <2>2, <2>4 DEF IsText, Printed, Typed, ErrorText
    <3>. HIDE DEF s
    <3>2. /\ Fitting(bound, s) =>
                 active[bound][1] * Spelled(s)[2] = Spelled(s)[1] * active[bound][2]
          /\ ~HasDigits(s) => active[bound] = Zero
      BY <2>1, <3>1, ReadIsSpelled
    <3>. QED
      BY <3>2 DEF s
  <2>. QED
    BY <2>3, <2>4 DEF ShownIsMeant
<1>. QED
  BY <1>1, NumInvariance, PTL

(* Whatever the right operand, "=" carries out the pending operation exactly *)
(* (Calculator of calculator.h, Rational of rational.h, IntegerPow of        *)
(* pow.h).                                                                   *)
THEOREM PendingComputesExactly == Spec => []PendingIsExact
<1>1. ASSUME Inv, NumInv PROVE PendingIsExact
  <2>1. ASSUME NEW t \in Types, operation[t] # None
        PROVE  <<t, operation[t], result[t]>> \in Tractable
    <3>1. t \in AllTypes /\ operation[t] \in Operations /\ result[t] \in NumbersOf(t)
      BY <1>1, <2>1, ControllerAssumption DEF NumInv, Own
    <3>2. \A b \in NumbersOf(t) : AsMeant(t, operation[t], result[t], b)
      BY <3>1, CalculateIsMeant
    <3> DEFINE Good(u, op) == {x \in NumbersOf(u) : \A b \in NumbersOf(u) : AsMeant(u, op, x, b)}
               these == {<<t, operation[t], x>> : x \in Good(t, operation[t])}
    <3>3. <<t, operation[t], result[t]>> \in these
      BY <3>1, <3>2
    <3>4. Tractable = UNION {{<<u, op, a>> : a \in Good(u, op)} : u \in Types, op \in Operations}
      BY DEF Tractable
    <3> DEFINE family == {{<<u, op, a>> : a \in Good(u, op)} : u \in Types, op \in Operations}
               triple == <<t, operation[t], result[t]>>
    <3>. HIDE DEF Good
    <3>5. these \in family
      BY <3>1
    <3>. HIDE DEF these, family, triple
    <3>6. triple \in UNION family
      BY <3>3, <3>5 DEF triple
    <3>. QED
      BY <3>4, <3>6 DEF family, triple
  <2>. QED
    BY <2>1 DEF PendingIsExact
<1>. QED
  BY <1>1, NumInvariance, PTL
=============================================================================
