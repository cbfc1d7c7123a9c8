------------------------------ MODULE Controller ------------------------------
(* The calculator as its user sees it (controller.h, mainwindow.h, main.cpp): *)
(* one window, whose keys call the controller of the chosen number type, and  *)
(* a controller for each type, which keeps its own number, pending operation, *)
(* memory and texts and comes back as it was left.                            *)
(* (An operator whose name ends in an underscore and a remark is a fault put  *)
(* in place of the operator it precedes.)                                     *)
EXTENDS Numbers

CONSTANTS Types,       \* the number types to choose from
          DigitKeys,   \* the digit keys pressed
          None,        \* an empty std::function
          MaxKeys,     \* bound: the keys pressed in a session
          ChoiceCost   \* bound: the keys that a change of type counts for

ASSUME ControllerAssumption ==
    /\ Types \subseteq AllTypes
    /\ DigitKeys \subseteq 0..9
    /\ None \notin Operations
    /\ MaxKeys \in Nat
    /\ ChoiceCost \in Nat \ {0}

VARIABLES operation,   \* operation_ (with operation_name_), for each type
          result,      \* calculator_.result_
          active,      \* active_number_
          input,       \* input_
          as_number,   \* input_as_number_
          mem,         \* mem_, <<number>> or <<>>
          text,        \* text_
          formula,     \* formula_
          mem_text,    \* mem_text_ is "M"
          bound,       \* the type whose controller the callbacks of the window call
          l_result,    \* the labels of the window
          l_formula,
          l_memory,
          status,      \* of the program: it runs, was aborted, or is undefined
          keys         \* the keys pressed so far

arithmetic == <<operation, result, mem>>
number == <<active, input, as_number>>
cached == <<text, formula, mem_text>>
labels == <<l_result, l_formula, l_memory>>
vars == <<arithmetic, number, cached, bound, labels, status, keys>>

(* A label with a number shows what was typed or a number printed.           *)
Typed(s) == <<"typed", s>>
Printed(n) == <<"printed", n>>
ErrorText == <<"error", <<>>>>

(* A formula is empty, <<left operand, operation>>, or, with "=", <<left     *)
(* operand, operation, right operand>>.                                      *)

(* The window is bound to one controller after another from the start.       *)
Init ==
    /\ operation = [t \in Types |-> None]
    /\ result = [t \in Types |-> Zero]
    /\ active = [t \in Types |-> Zero]
    /\ input = [t \in Types |-> <<>>]
    /\ as_number = [t \in Types |-> TRUE]
    /\ mem = [t \in Types |-> <<>>]
    /\ text = [t \in Types |-> Typed(<<>>)]
    /\ formula = [t \in Types |-> <<>>]
    /\ mem_text = [t \in Types |-> FALSE]
    /\ bound \in Types
    /\ l_result = Typed(<<>>)
    /\ l_formula = <<>>
    /\ l_memory = FALSE
    /\ status = "running"
    /\ keys = 0

(* A click on a key while the program runs.                                  *)
Click ==
    /\ status = "running"
    /\ keys < MaxKeys
    /\ keys' = keys + 1
    /\ bound' = bound

-----------------------------------------------------------------------------
(* What the functions of Controller do to a part of the state.               *)

UpdateInputInView_NotCached(s) ==
    /\ l_result' = s
    /\ UNCHANGED text

UpdateInputInView(s) ==
    /\ l_result' = s
    /\ text' = [text EXCEPT ![bound] = s]

SetFormulaInView(s) ==
    /\ l_formula' = s
    /\ formula' = [formula EXCEPT ![bound] = s]

SetMemInView_NotCached(m) ==
    /\ l_memory' = m
    /\ UNCHANGED mem_text

SetMemInView(m) ==
    /\ l_memory' = m
    /\ mem_text' = [mem_text EXCEPT ![bound] = m]

SetInput(isNumber, s, n) ==
    /\ as_number' = [as_number EXCEPT ![bound] = isNumber]
    /\ input' = [input EXCEPT ![bound] = s]
    /\ active' = [active EXCEPT ![bound] = n]
    /\ UpdateInputInView(IF isNumber THEN Printed(n) ELSE Typed(s))

SetInputAsNumber(n) == SetInput(TRUE, <<>>, n)

(* The program ends, or goes on in an unknown way, with this outcome.        *)
Stop(outcome) ==
    /\ status' = outcome[1]
    /\ UNCHANGED <<arithmetic, number, cached, labels>>

(* A key that changes the input and nothing else.                            *)
Input(isNumber, s, outcome) ==
    IF outcome[1] = "value"
    THEN /\ SetInput(isNumber, s, outcome[2])
         /\ UNCHANGED <<arithmetic, formula, mem_text, l_formula, l_memory, status>>
    ELSE Stop(outcome)

SetInputAsString(s) == Input(FALSE, s, FromString(bound, s))

-----------------------------------------------------------------------------
(* The keys *)

PressDigitKey(digit) == Click /\ SetInputAsString(Append(input[bound], Digits[digit + 1]))

OnOperation_AlwaysSets(op) ==
    /\ Click
    /\ result' = [result EXCEPT ![bound] = active[bound]]
    /\ operation' = [operation EXCEPT ![bound] = op]
    /\ input' = [input EXCEPT ![bound] = <<>>]
    /\ SetFormulaInView(<<result'[bound], op>>)
    /\ UNCHANGED <<active, as_number, mem, text, mem_text, l_result, l_memory, status>>

(* A pending operation is replaced, not carried out.  The number stays on    *)
(* display, and so does its being a number.                                  *)
OnOperation(op) ==
    /\ Click
    /\ result' = IF operation[bound] = None
                 THEN [result EXCEPT ![bound] = active[bound]] ELSE result
    /\ operation' = [operation EXCEPT ![bound] = op]
    /\ input' = [input EXCEPT ![bound] = <<>>]
    /\ SetFormulaInView(<<result'[bound], op>>)
    /\ UNCHANGED <<active, as_number, mem, text, mem_text, l_result, l_memory, status>>

Completed_StaysPending == operation
Completed == [operation EXCEPT ![bound] = None]

(* After an error the operation is still pending and its operands are as     *)
(* they were; the message is not kept in text_.                              *)
PressEquals ==
    /\ Click
    /\ operation[bound] # None
    /\ LET outcome == Calculate(bound, operation[bound], result[bound], active[bound]) IN
       CASE outcome[1] = "value" ->
              /\ result' = [result EXCEPT ![bound] = outcome[2]]
              /\ SetFormulaInView(<<result[bound], operation[bound], active[bound]>>)
              /\ SetInputAsNumber(outcome[2])
              /\ operation' = Completed
              /\ UNCHANGED <<mem, mem_text, l_memory, status>>
         [] outcome[1] = "error" ->
              /\ l_result' = ErrorText
              /\ UNCHANGED <<arithmetic, number, cached, l_formula, l_memory, status>>
         [] OTHER -> Stop(outcome)

PressClear ==
    /\ Click
    /\ SetInputAsNumber(Zero)
    /\ SetFormulaInView(<<>>)
    /\ operation' = [operation EXCEPT ![bound] = None]
    /\ UNCHANGED <<result, mem, mem_text, l_memory, status>>

PressMemSave ==
    /\ Click
    /\ mem' = [mem EXCEPT ![bound] = <<active[bound]>>]
    /\ SetMemInView(TRUE)
    /\ UNCHANGED <<operation, result, number, text, formula, l_result, l_formula, status>>

(* The formula disappears; a pending operation does not.                     *)
PressMemLoad ==
    /\ Click
    /\ mem[bound] # <<>>
    /\ SetInputAsNumber(mem[bound][1])
    /\ SetFormulaInView(<<>>)
    /\ UNCHANGED <<arithmetic, mem_text, l_memory, status>>

PressMemClear ==
    /\ Click
    /\ mem' = [mem EXCEPT ![bound] = <<>>]
    /\ SetMemInView(FALSE)
    /\ UNCHANGED <<operation, result, number, text, formula, l_result, l_formula, status>>

(* After an operation key on a typed number the input is empty, and the sign *)
(* begins a new one.                                                         *)
PressPlusMinus ==
    /\ Click
    /\ IF as_number[bound]
       THEN Input(TRUE, <<>>, Negate(bound, active[bound]))
       ELSE SetInputAsString(IF IsNegative(input[bound]) THEN Tail(input[bound])
                             ELSE <<"-">> \o input[bound])

PressBackspace ==
    /\ Click
    /\ input[bound] # <<>>
    /\ SetInputAsString(Front(input[bound]))

(* The window hides the extra key from controllers of integers.              *)
PressExtraKey ==
    /\ Click
    /\ bound = "rational"
    /\ input[bound] # <<>>
    /\ Slashes(input[bound]) = {}
    /\ SetInputAsString(Append(input[bound], "/"))

(* BindWithMainWindow and RevealView.                                        *)
ChooseType(t) ==
    /\ status = "running"
    /\ keys + ChoiceCost <= MaxKeys
    /\ keys' = keys + ChoiceCost
    /\ t # bound
    /\ bound' = t
    /\ l_result' = text[t]
    /\ l_formula' = formula[t]
    /\ l_memory' = mem_text[t]
    /\ UNCHANGED <<arithmetic, number, cached, status>>

DigitKey == \E digit \in DigitKeys : PressDigitKey(digit)

OperationKey == \E op \in Operations : OnOperation(op)

ControlKey ==
    \/ PressEquals
    \/ PressClear
    \/ PressMemSave
    \/ PressMemLoad
    \/ PressMemClear
    \/ PressPlusMinus
    \/ PressBackspace
    \/ PressExtraKey

TypeKey == \E t \in Types : ChooseType(t)

Next == DigitKey \/ OperationKey \/ ControlKey \/ TypeKey

Spec == Init /\ [][Next]_vars

-----------------------------------------------------------------------------
(* What the arithmetic is meant to be: that of fractions, modulo Modulus    *)
(* for the unsigned types.                                                   *)

Powers(t, x, k) ==
    LET power[i \in 0..k] ==
            IF i = 0 THEN 1
            ELSE IF t \in Unsigned THEN (x * power[i - 1]) % Modulus ELSE x * power[i - 1]
    IN power

Raised(t, x, k) == Powers(t, x, k)[k]

Exact(t, op, a, b) ==
    CASE op = "ADDITION" -> <<a[1] * b[2] + b[1] * a[2], a[2] * b[2]>>
      [] op = "SUBTRACTION" -> <<a[1] * b[2] - b[1] * a[2], a[2] * b[2]>>
      [] op = "MULTIPLICATION" -> <<a[1] * b[1], a[2] * b[2]>>
      [] op = "DIVISION" -> IF t = "rational" THEN <<a[1] * b[2], a[2] * b[1]>>
                            ELSE <<Truncated(a[1], b[1]), 1>>
      [] op = "POWER" -> IF b[1] >= 0 THEN <<Raised(t, a[1], b[1]), Raised(t, a[2], b[1])>>
                         ELSE <<Raised(t, a[2], -b[1]), Raised(t, a[1], -b[1])>>

Same(t, x, n) ==
    IF t \in Unsigned THEN (x[1] - n[1]) % Modulus = 0 ELSE x[1] * n[2] = n[1] * x[2]

Meaningless(t, op, a, b) ==
    \/ op = "DIVISION" /\ b = Zero
    \/ op = "POWER" /\ \/ a = Zero /\ b = Zero
                       \/ b[1] < 0 /\ t # "rational"
                       \/ b[2] # 1

(* The numbers the computation has to go through do not fit an int: for a    *)
(* power, not even the square of the result need fit (the base is squared    *)
(* once too often); for fractions, the numbers before they are reduced.      *)
TooGreat(t, op, a, b) ==
    LET x == Exact(t, op, a, b) IN
    CASE t = "int" /\ op # "POWER" -> x[1] \notin Ints
      [] t = "rational" /\ op # "POWER" ->
            ~({x[1], x[2], a[1] * b[2], b[1] * a[2]} \subseteq Ints \ {MIN})
      [] op = "POWER" -> \E i \in {1, 2} : x[i] # 0 /\ Abs(x[i]) > MAX \div Abs(x[i])

AsMeant(t, op, a, b) ==
    LET outcome == Calculate(t, op, a, b) IN
    /\ outcome[1] = "error" <=> Meaningless(t, op, a, b)
    /\ outcome[1] = "aborted" <=>
           t = "rational" /\ op = "POWER" /\ a = Zero /\ b[1] < 0 /\ b[2] = 1
    /\ outcome[1] = "undefined" => t \notin Unsigned /\ TooGreat(t, op, a, b)
    /\ outcome[1] = "value" => Same(t, Exact(t, op, a, b), outcome[2])

(* The fraction a typed text spells out, and whether its parts fit the type. *)
Spelled(s) == <<Meant(Upper(s)), IF Slashes(s) = {} THEN 1 ELSE Meant(Lower(s))>>

Fitting(t, s) ==
    /\ HasDigits(Upper(s))
    /\ Spelled(s)[2] # 0
    /\ IF t = "rational" THEN {Spelled(s)[1], Spelled(s)[2]} \subseteq Ints
       ELSE Spelled(s) \in NumbersOf(t)

-----------------------------------------------------------------------------
(* Properties *)

(* The type invariant.  A rational number is always in lowest terms with a   *)
(* positive denominator: the test for a fractional power, the printing and   *)
(* the test for equal denominators rely on it.                               *)
TypeOK ==
    /\ bound \in Types
    /\ status \in {"running", "aborted", "undefined"}
    /\ \A t \in Types :
           /\ operation[t] \in Operations \cup {None}
           /\ {active[t], result[t]} \subseteq NumbersOf(t)
           /\ mem[t] # <<>> => mem[t][1] \in NumbersOf(t)

(* The next key works on the number on display: on the one printed there, or *)
(* on the one that the text typed there spells out, if it fits the type (a   *)
(* byte typed as 300 does not), and on zero if there is no digit.            *)
ShownIsMeant ==
    /\ l_result[1] = "printed" => active[bound] = l_result[2]
    /\ l_result[1] = "typed" =>
           LET s == l_result[2] IN
           /\ Fitting(bound, s) => active[bound][1] * Spelled(s)[2] = Spelled(s)[1] * active[bound][2]
           /\ ~HasDigits(s) => active[bound] = Zero

(* The window shows the controller its keys call, whichever were bound to it *)
(* before: its formula, whether its memory is in use, and its number or an   *)
(* error, which only a pending operation can have caused.                    *)
WindowShowsBound ==
    /\ l_formula = formula[bound]
    /\ l_memory = (mem[bound] # <<>>)
    /\ \/ l_result = text[bound]
       \/ l_result = ErrorText /\ operation[bound] # None

(* An open formula is the operation that "=" will carry out on its left      *)
(* operand; a closed one is a true statement about the result, and nothing   *)
(* is pending.                                                               *)
FormulaIsPending ==
    \A t \in Types :
        /\ Len(formula[t]) = 2 => formula[t] = <<result[t], operation[t]>>
        /\ Len(formula[t]) = 3 =>
               /\ operation[t] = None
               /\ LET outcome == Calculate(t, formula[t][2], formula[t][1], formula[t][3])
                  IN outcome[1] = "value" /\ outcome[2] = result[t]

(* The operations and left operands <<type, operation, operand>> that give   *)
(* what is meant whatever the right operand.                                 *)
Tractable ==
    UNION {{<<t, op, a>> : a \in {x \in NumbersOf(t) : \A b \in NumbersOf(t) : AsMeant(t, op, x, b)}}
           : t \in Types, op \in Operations}

(* Whatever right operand is chosen for a pending operation, "=" gives the   *)
(* exact result (modulo Modulus for the unsigned types), an error exactly   *)
(* if there is none, an abort only for zero to a negative power, and         *)
(* undefined behaviour only if the numbers in between do not fit.            *)
PendingIsExact ==
    \A t \in Types : operation[t] # None => <<t, operation[t], result[t]>> \in Tractable

Pending == [t \in Types |-> IF operation[t] = None THEN <<>> ELSE <<result[t], operation[t]>>]

Desk == INSTANCE DeskCalculator WITH
    chosen <- bound, entry <- active, pending <- Pending, memory <- mem, Evaluate <- Calculate

(* The controllers and their window are independent desk calculators: a left *)
(* operand stays until "=" or "C", an error changes nothing, and nobody but  *)
(* the chosen one moves.                                                     *)
ImplementsDesk == Desk!Spec
=============================================================================
