------------------------------- MODULE Numbers -------------------------------
(* The number types of the calculator (rational.h, pow.h, calculator.h and   *)
(* the conversions of controller.h).  A number is a fraction <<numerator,    *)
(* denominator>>; that of an integer is over one.                            *)
(* What a function of the program yields is an outcome <<kind, number>>:     *)
(* "value", "error" (an error message), "aborted" (std::abort) or            *)
(* "undefined" (signed overflow and the like).                               *)
(* (An operator whose name ends in an underscore and a remark is a fault put *)
(* in place of the operator it precedes.)                                    *)
EXTENDS Integers, Sequences, SequencesExt

CONSTANT Modulus    \* 2 ^ w, for a type of w bits

ASSUME ModulusAssumption == Modulus \in Nat /\ Modulus > 2 /\ Modulus % 2 = 0

AllTypes == {"byte", "size", "int", "rational"}
Unsigned == {"byte", "size"}
Operations == {"ADDITION", "SUBTRACTION", "MULTIPLICATION", "DIVISION", "POWER"}

MAX == Modulus \div 2 - 1
MIN == -(Modulus \div 2)
Ints == MIN .. MAX

Zero == <<0, 1>>

Value(number) == <<"value", number>>
Error == <<"error", Zero>>
Aborted == <<"aborted", Zero>>
Undefined == <<"undefined", Zero>>

Wrapped(n) == Value(<<n % Modulus, 1>>)

Abs(n) == IF n < 0 THEN -n ELSE n
Divides(d, n) == n % d = 0
Gcd(n, d) == CHOOSE g \in 1..Abs(d) : /\ Divides(g, n) /\ Divides(g, d)
                                      /\ \A h \in (g + 1)..Abs(d) : ~(Divides(h, n) /\ Divides(h, d))

Reduced_SignKept(n, d) == <<n \div Gcd(n, d), d \div Gcd(n, d)>>

(* Reduction: the sign moves to the numerator.                               *)
Reduced(n, d) ==
    LET sign == IF d < 0 THEN -1 ELSE 1
    IN <<(sign * n) \div Gcd(n, d), (sign * d) \div Gcd(n, d)>>

(* Rational(numerator, denominator), with the arguments computed as int;     *)
(* neither the negation nor std::gcd is defined for the least int.  (The     *)
(* operators += to /= reduce once more, which changes nothing.)              *)
Rational(n, d) ==
    CASE ~({n, d} \subseteq Ints)             -> Undefined
      [] n \in Ints /\ d = 0                  -> Aborted
      [] d \in Ints \ {0} /\ MIN \in {n, d} -> Undefined
      [] OTHER                               -> Value(Reduced(n, d))

-----------------------------------------------------------------------------
(* IntegerPow.                                                               *)

(* What takes the place of a product that overflowed.                        *)
Overflown == Modulus

Product(t, x, y) ==
    IF t \in Unsigned THEN (x * y) % Modulus
    ELSE IF Overflown \in {x, y} \/ x * y \notin Ints THEN Overflown ELSE x * y

Rounds_SquaresFirst(t, base, exponent) ==
    LET after[k \in 0..Modulus] ==
            IF k = 0 THEN <<1, base, exponent>>
            ELSE LET s == after[k - 1]
                     square == Product(t, s[2], s[2])
                 IN IF s[3] = 0 THEN s
                    ELSE <<IF s[3] % 2 = 1 THEN Product(t, s[1], square) ELSE s[1],
                           square, s[3] \div 2>>
    IN after[Modulus]

(* <<res, l_op, r_op>> after each round of the loop (an exponent has fewer   *)
(* bits than Modulus).  The base is squared in the last round too, although  *)
(* nothing uses the square.                                                  *)
RoundsOf(t, base, exponent) ==
    LET after[k \in 0..Modulus] ==
            IF k = 0 THEN <<1, base, exponent>>
            ELSE LET s == after[k - 1] IN
                 IF s[3] = 0 THEN s
                 ELSE <<IF s[3] % 2 = 1 THEN Product(t, s[1], s[2]) ELSE s[1],
                        Product(t, s[2], s[2]), s[3] \div 2>>
    IN after

Rounds(t, base, exponent) == RoundsOf(t, base, exponent)[Modulus]

IntegerPow(t, base, exponent) ==
    LET last == Rounds(t, base, exponent) IN
    IF Overflown \in {last[1], last[2]} THEN Overflown ELSE last[1]

(* Pow of a rational by an integer.                                          *)
RationalPow(a, pow) ==
    LET base == IF pow >= 0 THEN a ELSE <<a[2], a[1]>>
    IN Rational(IntegerPow("int", base[1], Abs(pow)), IntegerPow("int", base[2], Abs(pow)))

-----------------------------------------------------------------------------
(* The operations of Calculator<Number> on result_ = a and the operand b.    *)

Result(t, n) ==
    IF t \in Unsigned THEN Wrapped(n) ELSE IF n \in Ints THEN Value(<<n, 1>>) ELSE Undefined

(* operator+ (sign 1) and operator- (sign -1).                               *)
Sum(t, a, sign, b) ==
    CASE t # "rational" -> Result(t, a[1] + sign * b[1])
      [] t = "rational" /\ a[2] = b[2] -> Rational(a[1] + sign * b[1], a[2])
      [] t = "rational" /\ a[2] # b[2] ->
            IF {a[1] * b[2], b[1] * a[2]} \subseteq Ints
            THEN Rational(a[1] * b[2] + sign * (b[1] * a[2]), a[2] * b[2])
            ELSE Undefined

Mul(t, a, b) ==
    IF t = "rational" THEN Rational(a[1] * b[1], a[2] * b[2]) ELSE Result(t, a[1] * b[1])

(* Integers are divided towards zero.                                        *)
Truncated(n, d) == IF (n < 0) = (d < 0) THEN Abs(n) \div Abs(d) ELSE -(Abs(n) \div Abs(d))

Div(t, a, b) ==
    IF b = Zero THEN Error
    ELSE IF t = "rational" THEN Rational(a[1] * b[2], a[2] * b[1])
    ELSE Result(t, Truncated(a[1], b[1]))

(* Zero to zero, an integer to a negative power, a fractional power.         *)
Pow(t, a, b) ==
    IF \/ a = Zero /\ b = Zero
       \/ t # "rational" /\ b[1] < 0
       \/ t = "rational" /\ b[2] # 1
    THEN Error
    ELSE IF t = "rational" THEN RationalPow(a, b[1])
    ELSE LET n == IntegerPow(t, a[1], b[1])
         IN IF n = Overflown THEN Undefined ELSE Value(<<n, 1>>)

Calculate(t, op, a, b) ==
    CASE op = "ADDITION" -> Sum(t, a, 1, b)
      [] op = "SUBTRACTION" -> Sum(t, a, -1, b)
      [] op = "MULTIPLICATION" -> Mul(t, a, b)
      [] op = "DIVISION" -> Div(t, a, b)
      [] op = "POWER" -> Pow(t, a, b)

(* Unary minus.                                                              *)
Negate(t, a) ==
    IF t = "rational" THEN Rational(-a[1], a[2]) ELSE Result(t, -a[1])

-----------------------------------------------------------------------------
(* FromString: reading a number from what was typed, a sequence of digits,   *)
(* "-" (in front only) and "/" (once).                                       *)

Digits == <<"0", "1", "2", "3", "4", "5", "6", "7", "8", "9">>
DigitChars == {Digits[i] : i \in 1..10}

ValueOf(c) == CHOOSE d \in 0..9 : Digits[d + 1] = c

HasDigits(s) == \E i \in 1..Len(s) : s[i] \in DigitChars

(* The number that the digits among the first k characters of s spell.       *)
ReadUpTo(s) ==
    LET value[k \in 0..Len(s)] ==
            IF k = 0 THEN 0
            ELSE IF s[k] \in DigitChars THEN 10 * value[k - 1] + ValueOf(s[k])
            ELSE value[k - 1]
    IN value

Magnitude(s) == ReadUpTo(s)[Len(s)]
IsNegative(s) == s # <<>> /\ s[1] = "-"

(* The parts before and after "/".                                           *)
Slashes(s) == {i \in 1..Len(s) : s[i] = "/"}
Upper(s) == IF Slashes(s) = {} THEN s ELSE SubSeq(s, 1, (CHOOSE i \in Slashes(s) : TRUE) - 1)
Lower(s) == IF Slashes(s) = {} THEN <<>> ELSE SubSeq(s, (CHOOSE i \in Slashes(s) : TRUE) + 1, Len(s))

(* operator>> of an unsigned type with values below limit: too great a       *)
(* number is read as the greatest, a negative one wraps around, and no digits *)
(* give zero.                                                                *)
ReadUnsigned(limit, s) ==
    IF Magnitude(s) >= limit THEN limit - 1
    ELSE (IF IsNegative(s) THEN -Magnitude(s) ELSE Magnitude(s)) % limit

Meant(s) == IF IsNegative(s) THEN -Magnitude(s) ELSE Magnitude(s)

(* operator>> of int, which also fails if it finds no digits or too many.    *)
ReadSigned(s) == IF Meant(s) > MAX THEN MAX ELSE IF Meant(s) < MIN THEN MIN ELSE Meant(s)
Fails(s) == ~HasDigits(s) \/ Meant(s) \notin Ints

(* operator>> of Rational leaves zero if a part is not read.                 *)
ReadRational(s) ==
    IF Fails(Upper(s)) THEN Value(Zero)
    ELSE IF Slashes(s) = {} THEN Rational(Meant(s), 1)
    ELSE IF Fails(Lower(s)) \/ Meant(Lower(s)) = 0 THEN Value(Zero)
    ELSE Rational(Meant(Upper(s)), Meant(Lower(s)))

(* A byte is read as an unsigned, here of twice the bits, and cut.          *)
FromString(t, s) ==
    CASE t = "byte" -> Wrapped(ReadUnsigned(Modulus * Modulus, s))
      [] t = "size" -> Value(<<ReadUnsigned(Modulus, s), 1>>)
      [] t = "int" -> Value(<<ReadSigned(s), 1>>)
      [] t = "rational" -> ReadRational(s)

-----------------------------------------------------------------------------
(* The numbers of a type, and what its arithmetic is meant to be.            *)

Fractions == {f \in (Ints \ {MIN}) \X (1..MAX) : Gcd(f[1], f[2]) = 1}

NumbersOf(t) ==
    CASE t \in Unsigned -> (0..(Modulus - 1)) \X {1}
      [] t = "int" -> Ints \X {1}
      [] t = "rational" -> Fractions
=============================================================================
