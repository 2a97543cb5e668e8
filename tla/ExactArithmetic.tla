--------------------------- MODULE ExactArithmetic ---------------------------
(***************************************************************************)
(* What the algebraic results about the solvers need of the arithmetic: on *)
(* a set Fin of numbers (no NaN or infinity among them) the operations are *)
(* exact.  Doubles obey these laws up to rounding.                         *)
(***************************************************************************)
EXTENDS Matrices

CONSTANTS
  Fin,              \* the finite numbers
  DotOver(_, _, _)  \* DotOver(S, u, x): the sum over c in S of u[c] * x[c]

Vector == [Row -> Fin]

Dot(u, x) == DotOver(Row, u, x)

ASSUME FinClosed ==
  /\ Fin \subseteq Num
  /\ Zero \in Fin
  /\ \A x, y \in Fin : Add(x, y) \in Fin /\ Sub(x, y) \in Fin /\ Mul(x, y) \in Fin
  /\ \A x \in Fin : Neg(x) \in Fin
  /\ \A x, y \in Fin : ~Tiny(y) => Div(x, y) \in Fin

ASSUME FinAddition ==
  /\ \A x \in Fin : Add(x, Zero) = x /\ Add(x, Neg(x)) = Zero
  /\ \A x, y \in Fin : Add(x, y) = Add(y, x) /\ Sub(x, y) = Add(x, Neg(y))
  /\ \A x, y, z \in Fin : Add(Add(x, y), z) = Add(x, Add(y, z))

ASSUME FinMultiplication ==
  /\ \A x, y \in Fin : Mul(x, y) = Mul(y, x)
  /\ \A x, y, z \in Fin : /\ Mul(Mul(x, y), z) = Mul(x, Mul(y, z))
                          /\ Mul(x, Add(y, z)) = Add(Mul(x, y), Mul(x, z))

\* What is not tiny can be divided by.
ASSUME FinDivision ==
  \A x, y, z \in Fin : ~Tiny(y) => (Mul(y, x) = z <=> x = Div(z, y))

\* There are numbers other than zero, and fabs makes each larger than zero.
ASSUME FinNonzero ==
  /\ \E x \in Fin : x # Zero
  /\ \A x \in Fin : x # Zero => Less(Abs(Zero), Abs(x))

\* The sum grows term by term.
ASSUME DotTerms ==
  \A u, x \in Vector :
    /\ DotOver({}, u, x) = Zero
    /\ \A S \in SUBSET Row : \A c \in Row \ S :
         DotOver(S \cup {c}, u, x) = Add(DotOver(S, u, x), Mul(u[c], x[c]))

Column(m, c) == [r \in Row |-> m[r][c]]

\* x solves the system aa x = (column c of bb).
Solves(aa, bb, c, x) == \A r \in Row : Dot(aa[r], x) = bb[r][c]

\* The absolute threshold takes a diagonal entry for zero that is not.
TakenForZero(aa) == \E r \in Row : Tiny(aa[r][r]) /\ aa[r][r] # Zero

\* Some nonzero vector is mapped to zero.
IsSingular(aa) ==
  \E v \in Vector : /\ \E c \in Row : v[c] # Zero
                    /\ \A r \in Row : Dot(aa[r], v) = Zero

=============================================================================
