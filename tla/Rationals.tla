------------------------------ MODULE Rationals ------------------------------
(***************************************************************************)
(* Exact arithmetic on fractions <<numerator, denominator>> in lowest      *)
(* terms with a positive denominator, and <<0, 0>> for NaN, which every    *)
(* operation on it yields again and which is not less than anything.       *)
(***************************************************************************)
EXTENDS Integers

gcd[m \in Nat, n \in Nat] == IF n = 0 THEN m ELSE gcd[n, m % n]

Magnitude(n) == IF n < 0 THEN -n ELSE n

Fraction(n, d) ==
  IF d = 0 THEN <<0, 0>>
  ELSE LET g == gcd[Magnitude(n), Magnitude(d)]
           s == IF d < 0 THEN -1 ELSE 1
       IN  <<s * (n \div g), Magnitude(d) \div g>>

QAdd(x, y)  == Fraction(x[1] * y[2] + y[1] * x[2], x[2] * y[2])
QNeg(x)     == <<-x[1], x[2]>>
QSub(x, y)  == QAdd(x, QNeg(y))
QMul(x, y)  == Fraction(x[1] * y[1], x[2] * y[2])
QDiv(x, y)  == IF y[2] = 0 THEN y ELSE Fraction(x[1] * y[2], x[2] * y[1])
QAbs(x)     == <<Magnitude(x[1]), x[2]>>
QLess(x, y) == x[2] * y[2] # 0 /\ x[1] * y[2] < y[1] * x[2]

=============================================================================
