------------------------------- MODULE Decimals -------------------------------
(***************************************************************************)
(* The part of Python's decimal arithmetic the settlement money chain      *)
(* rests on: a finite number is c * 10^e with an integer coefficient c,    *)
(* and the result of every operation is rounded half-even to the           *)
(* precision of the context.  The default context has 28 digits, beyond    *)
(* TLC's integers; Precision is a parameter, and what is proved of the     *)
(* operations holds of every precision.                                    *)
(***************************************************************************)
EXTENDS Integers

CONSTANT Precision

ASSUME PrecisionAssumption == Precision \in Nat \ {0}

\* The powers of ten.
Ten[k \in Nat] == IF k = 0 THEN 1 ELSE 10 * Ten[k - 1]

Abs(n) == IF n < 0 THEN -n ELSE n

\* The number of decimal digits, 0 for 0.
Length[n \in Nat] == IF n = 0 THEN 0 ELSE 1 + Length[n \div 10]

Digits(n) == Length[Abs(n)]

\* n / 10^d to the nearest integer, ties to the even one.
HalfEven(n, d) ==
    LET unit == Ten[d]
        q == Abs(n) \div unit
        twice == 2 * (Abs(n) % unit)
        up == twice > unit \/ (twice = unit /\ q % 2 = 1)
        r == IF up THEN q + 1 ELSE q
    IN  IF n < 0 THEN -r ELSE r

\* Trailing zeros go into the exponent: equal values are the same decimal.
Dec(c, e) ==
    LET zeros == CHOOSE k \in 0 .. Digits(c) : c % Ten[k] = 0 /\ c % Ten[k + 1] # 0
    IN  IF c = 0 THEN [c |-> 0, e |-> 0] ELSE [c |-> c \div Ten[zeros], e |-> e + zeros]

Decimal == [c : Int, e : Int]

\* The form Dec gives: equal values are the same decimal.
Normal(x) ==
    /\ x \in Decimal
    /\ x.c = 0 => x.e = 0
    /\ x.c # 0 => x.c % 10 # 0

\* c * 10^e as the context keeps it: at most Precision digits.
Rounded(c, e) ==
    LET d == Digits(c) - Precision
    IN  IF d <= 0 THEN Dec(c, e) ELSE Dec(HalfEven(c, d), e + d)

\* The coefficient of a at the lower of two exponents.
Aligned(a, e) == a.c * Ten[a.e - e]

Lower(a, b) == IF a.e < b.e THEN a.e ELSE b.e

Plus(a, b) == LET e == Lower(a, b) IN Rounded(Aligned(a, e) + Aligned(b, e), e)
Minus(a, b) == Plus(a, Dec(-b.c, b.e))
Times(a, b) == Rounded(a.c * b.c, a.e + b.e)

\* a / 1.2 = 5a / 6, carried to one digit more than the context keeps; a
\* remainder below that digit only has to break a tie, so it becomes a 1.
DividedBy12(a) ==
    LET sign == IF a.c < 0 THEN -1 ELSE 1
        n == 5 * Abs(a.c) * Ten[Precision]
        q == n \div 6
    IN  IF n % 6 = 0 THEN Rounded(sign * q, a.e - Precision)
        ELSE Rounded(sign * (10 * q + 1), a.e - Precision - 1)

SameValue(a, b) == LET e == Lower(a, b) IN Aligned(a, e) = Aligned(b, e)

=============================================================================
