----------------------------- MODULE FiniteField -----------------------------
(***************************************************************************)
(* An arithmetic small enough for TLC in which division is exact: the      *)
(* integers modulo a prime P, and NaN for a division by zero.  fabs and <  *)
(* are those of the representatives 0..P-1, so that Eps = 1 makes zero     *)
(* the only tiny value.                                                    *)
(***************************************************************************)
EXTENDS Integers

CONSTANT P          \* a prime

NaN == -1
FField == 0 .. (P - 1)
FNum   == FField \cup {NaN}

\* NaN is absorbing: an operation on a NaN yields a NaN.
Lift(x, y, r) == IF NaN \in {x, y} THEN NaN ELSE r % P

FAdd(x, y)  == Lift(x, y, x + y)
FSub(x, y)  == Lift(x, y, x - y)
FMul(x, y)  == Lift(x, y, x * y)
FNeg(x)     == Lift(x, x, -x)
FAbs(x)     == x
FLess(x, y) == NaN \notin {x, y} /\ x < y
FDiv(x, y)  ==
  IF y \in {NaN, 0} THEN NaN
  ELSE FMul(x, CHOOSE inv \in FField : (y * inv) % P = 1)

=============================================================================
