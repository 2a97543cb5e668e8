------------------------ MODULE ExactArithmetic_proofs ------------------------
(***************************************************************************)
(* The linear algebra the solvers rest on, from the laws of                *)
(* ExactArithmetic: what holds of sums of terms, that adding a multiple of *)
(* one row to another keeps the solutions, that a triangular row           *)
(* determines its unknown, and when a triangular matrix is singular.       *)
(***************************************************************************)
EXTENDS ExactArithmetic, WellFoundedInduction, TLAPS

(* Induction over the natural numbers, for a set of them. *)

\* A set of natural numbers that is not empty has a least element.
LEMMA LeastElement ==
  ASSUME NEW S \in SUBSET Nat, S # {}
  PROVE  \E l \in S : \A n \in S : l <= n
<1> DEFINE R == {p \in Nat \X Nat : p[1] < p[2]}
<1>1. IsWellFoundedOn(R, Nat)
  BY NatLessThanWellFounded, Zenon DEF OpToRel
<1>2. \A n, l \in Nat : n < l => <<n, l>> \in R
  OBVIOUS
<1> HIDE DEF R
<1>3. PICK l \in S : \A n \in S : ~(<<n, l>> \in R)
  BY <1>1, WFMin, Zenon
<1>4. \A n \in S : ~(n < l)
  BY <1>2, <1>3
<1> QED
  BY <1>4

\* A set with 0 and with the successors below m of its elements has all
\* numbers up to m.
LEMMA UpTo ==
  ASSUME NEW m \in Nat, NEW S, 0 \in S,
         \A n \in Nat : n < m /\ n \in S => n + 1 \in S
  PROVE  \A n \in 0 .. m : n \in S
<1> DEFINE Out == {n \in 0 .. m : n \notin S}
<1> SUFFICES ASSUME Out # {} PROVE FALSE
  OBVIOUS
<1>1. PICK l \in Out : \A n \in Out : l <= n
  <2>1. Out \in SUBSET Nat
    OBVIOUS
  <2> HIDE DEF Out
  <2> QED
    BY <2>1, LeastElement
<1>2. l \in Nat /\ l # 0 /\ l - 1 \in Nat /\ l - 1 < m /\ l - 1 \in 0 .. m
  BY <1>1
<1>3. l - 1 \in S
  BY <1>1, <1>2
<1>4. (l - 1) + 1 \in S
  BY <1>2, <1>3
<1> QED
  BY <1>1, <1>2, <1>4

-----------------------------------------------------------------------------
(* Calculating with finite numbers. *)

\* A number that is added on both sides cancels.
LEMMA Cancel ==
  ASSUME NEW x \in Fin, NEW y \in Fin, NEW z \in Fin, Add(x, z) = Add(y, z)
  PROVE  x = y
<1>1. Neg(z) \in Fin
  BY FinClosed
<1>2. Add(Add(x, z), Neg(z)) = x
  BY <1>1, FinAddition
<1>3. Add(Add(y, z), Neg(z)) = y
  BY <1>1, FinAddition
<1> QED
  BY <1>2, <1>3

LEMMA TimesZero ==
  ASSUME NEW x \in Fin
  PROVE  Mul(x, Zero) = Zero /\ Mul(Zero, x) = Zero
<1>1. Zero \in Fin /\ Mul(x, Zero) \in Fin
  BY FinClosed
<1>2. Mul(x, Add(Zero, Zero)) = Add(Mul(x, Zero), Mul(x, Zero))
  BY <1>1, FinMultiplication
<1>3. Add(Zero, Mul(x, Zero)) = Mul(x, Zero)
  BY <1>1, FinAddition
<1>4. Add(Zero, Zero) = Zero
  BY <1>1, FinAddition
<1>5. Mul(x, Zero) = Zero
  BY <1>1, <1>2, <1>3, <1>4, Cancel
<1> QED
  BY <1>1, <1>5, FinMultiplication

\* The sum of two sums, term by term.
LEMMA AddFour ==
  ASSUME NEW x \in Fin, NEW y \in Fin, NEW z \in Fin, NEW w \in Fin
  PROVE  Add(Add(x, y), Add(z, w)) = Add(Add(x, z), Add(y, w))
<1>1. Add(Add(x, y), Add(z, w)) = Add(x, Add(y, Add(z, w)))
  BY FinClosed, FinAddition
<1>2. Add(y, Add(z, w)) = Add(z, Add(y, w))
  <2>1. Add(y, Add(z, w)) = Add(Add(y, z), w) /\ Add(z, Add(y, w)) = Add(Add(z, y), w)
    BY FinAddition
  <2> QED
    BY <2>1, FinAddition
<1>3. Add(x, Add(z, Add(y, w))) = Add(Add(x, z), Add(y, w))
  BY FinClosed, FinAddition
<1> QED
  BY <1>1, <1>2, <1>3

\* What the elimination computes: the multiple of y that takes x away.
LEMMA FinExact ==
  /\ \A x, t \in Fin : Add(x, Zero) = x /\ Add(x, Mul(t, Zero)) = x
  /\ \A x, y \in Fin : ~Tiny(y) => Add(x, Mul(Div(Neg(x), y), y)) = Zero
  /\ \A x, y, z \in Fin : Add(x, z) = Add(y, z) => x = y
<1>1. \A x, t \in Fin : Add(x, Zero) = x /\ Add(x, Mul(t, Zero)) = x
  BY TimesZero, FinAddition
<1>2. ASSUME NEW x \in Fin, NEW y \in Fin, ~Tiny(y)
      PROVE  Add(x, Mul(Div(Neg(x), y), y)) = Zero
  <2>1. Neg(x) \in Fin /\ Div(Neg(x), y) \in Fin
    BY <1>2, FinClosed
  <2>2. Mul(y, Div(Neg(x), y)) = Neg(x)
    BY <1>2, <2>1, FinDivision
  <2>3. Mul(Div(Neg(x), y), y) = Neg(x)
    BY <2>1, <2>2, FinMultiplication
  <2> QED
    BY <2>3, FinAddition
<1> QED
  BY <1>1, <1>2, Cancel

\* What back substitution computes: a term taken off, and a quotient.
LEMMA FinSolve ==
  /\ \A x, y \in Fin : Add(x, y) = Add(y, x)
  /\ \A x, y, z \in Fin : Add(Sub(x, z), Add(y, z)) = Add(x, y)
  /\ \A x, y, z \in Fin : ~Tiny(y) => (Mul(y, x) = z <=> x = Div(z, y))
<1>1. ASSUME NEW x \in Fin, NEW y \in Fin, NEW z \in Fin
      PROVE  Add(Sub(x, z), Add(y, z)) = Add(x, y)
  <2>1. Neg(z) \in Fin /\ Sub(x, z) = Add(x, Neg(z)) /\ Add(x, y) \in Fin
    BY FinClosed, FinAddition
  <2>2. Add(Add(x, Neg(z)), Add(y, z)) = Add(Add(x, y), Add(Neg(z), z))
    BY <2>1, AddFour
  <2>3. Add(Neg(z), z) = Zero
    BY <2>1, FinAddition
  <2> QED
    BY <2>1, <2>2, <2>3, FinAddition
<1> QED
  BY <1>1, FinAddition, FinDivision

\* Taking off and adding back, and taking off a sum.
LEMMA SubAdd ==
  ASSUME NEW x \in Fin, NEW y \in Fin
  PROVE  Add(Sub(x, y), y) = x
<1>1. Neg(y) \in Fin /\ Zero \in Fin
  BY FinClosed
<1>2. Add(Add(x, Neg(y)), y) = Add(x, Add(Neg(y), y))
  BY <1>1, FinAddition
<1> QED
  BY <1>1, <1>2, FinAddition

LEMMA SubTwice ==
  ASSUME NEW x \in Fin, NEW y \in Fin, NEW z \in Fin
  PROVE  Sub(x, Add(y, z)) = Sub(Sub(x, y), z)
<1>1. /\ Sub(x, y) \in Fin /\ Add(y, z) \in Fin /\ Sub(x, Add(y, z)) \in Fin
      /\ Sub(Sub(x, y), z) \in Fin
  BY FinClosed
<1>2. Add(Sub(Sub(x, y), z), Add(y, z)) = x
  BY <1>1, FinSolve, SubAdd
<1>3. Add(Sub(x, Add(y, z)), Add(y, z)) = x
  BY <1>1, SubAdd
<1> QED
  BY <1>1, <1>2, <1>3, Cancel

-----------------------------------------------------------------------------
(* Sums of terms. *)

Below(S, n) == S \cap 0 .. (n - 1)

\* The part of a sum below n + 1 has one term more than that below n, or none.
LEMMA SumBelow ==
  ASSUME NEW S \in SUBSET Row, NEW u \in Vector, NEW x \in Vector,
         NEW n \in Nat, n < N
  PROVE  /\ n \notin S => Below(S, n + 1) = Below(S, n)
         /\ n \in S => DotOver(Below(S, n + 1), u, x)
                        = Add(DotOver(Below(S, n), u, x), Mul(u[n], x[n]))
<1>1. n \notin S => Below(S, n + 1) = Below(S, n)
  BY SizeAssumption DEF Below, Row
<1>2. ASSUME n \in S
      PROVE  DotOver(Below(S, n + 1), u, x)
               = Add(DotOver(Below(S, n), u, x), Mul(u[n], x[n]))
  <2>1. /\ Below(S, n + 1) = Below(S, n) \cup {n}
        /\ Below(S, n) \in SUBSET Row /\ n \in Row \ Below(S, n)
    BY <1>2, SizeAssumption DEF Below, Row
  <2> QED
    BY <2>1, DotTerms
<1> QED
  BY <1>1, <1>2

\* Nothing is below 0, and everything below N.
LEMMA BelowEnds ==
  ASSUME NEW S \in SUBSET Row
  PROVE  Below(S, 0) = {} /\ Below(S, N) = S
<1>1. Below(S, 0) = {}
  BY DEF Below
<1>2. \A c \in S : c \in 0 .. (N - 1)
  BY DEF Row
<1> QED
  BY <1>1, <1>2 DEF Below

\* A sum of finite terms is finite.
LEMMA SumFinite ==
  ASSUME NEW S \in SUBSET Row, NEW u \in Vector, NEW x \in Vector
  PROVE  DotOver(S, u, x) \in Fin
<1> DEFINE P(n) == DotOver(Below(S, n), u, x) \in Fin
           G == {n \in Nat : P(n)}
<1>1. 0 \in G
  BY BelowEnds, DotTerms, FinClosed
<1>2. ASSUME NEW n \in Nat, n < N, n \in G PROVE n + 1 \in G
  <2>1. n \in Row /\ Mul(u[n], x[n]) \in Fin
    BY <1>2, SizeAssumption, FinClosed DEF Row, Vector
  <2> QED
    BY <1>2, <2>1, SumBelow, FinClosed
<1>3. N \in G
  <2> HIDE DEF G
  <2> QED
    BY <1>1, <1>2, UpTo, SizeAssumption
<1> QED
  BY <1>3, BelowEnds

Additive(L) ==
  /\ L \in [Fin -> Fin] /\ L[Zero] = Zero
  /\ \A p, q \in Fin : L[Add(p, q)] = Add(L[p], L[q])

\* A sum whose terms are u x plus an additive function of v y is such a sum
\* itself.
LEMMA SumAdditive ==
  ASSUME NEW S \in SUBSET Row, NEW L, Additive(L),
         NEW u \in Vector, NEW x \in Vector, NEW v \in Vector, NEW y \in Vector,
         NEW w \in Vector, NEW z \in Vector,
         \A c \in S : Mul(w[c], z[c]) = Add(Mul(u[c], x[c]), L[Mul(v[c], y[c])])
  PROVE  DotOver(S, w, z) = Add(DotOver(S, u, x), L[DotOver(S, v, y)])
<1> DEFINE P(n) == DotOver(Below(S, n), w, z)
                     = Add(DotOver(Below(S, n), u, x), L[DotOver(Below(S, n), v, y)])
           G == {n \in Nat : P(n)}
<1> USE DEF Additive
<1>1. 0 \in G
  <2>1. Add(Zero, L[Zero]) = Zero
    BY FinClosed, FinAddition
  <2>2. Below(S, 0) = {}
    BY BelowEnds
  <2>3. DotOver({}, w, z) = Zero /\ DotOver({}, u, x) = Zero /\ DotOver({}, v, y) = Zero
    BY DotTerms
  <2>4. DotOver({}, w, z) = Add(DotOver({}, u, x), L[DotOver({}, v, y)])
    BY <2>1, <2>3, Zenon
  <2> QED
    BY <2>2, <2>4
<1>2. ASSUME NEW n \in Nat, n < N, n \in G PROVE n + 1 \in G
  <2>1. CASE n \notin S
    BY <1>2, <2>1, SumBelow
  <2>2. CASE n \in S
    <3>1. PICK d \in Fin : d = DotOver(Below(S, n), u, x)
      BY SumFinite DEF Below
    <3>2. PICK e \in Fin : e = DotOver(Below(S, n), v, y)
      BY SumFinite DEF Below
    <3>3. PICK f \in Fin : f = Mul(u[n], x[n])
      BY <2>2, FinClosed DEF Vector
    <3>4. PICK g \in Fin : g = Mul(v[n], y[n])
      BY <2>2, FinClosed DEF Vector
    <3>5. DotOver(Below(S, n + 1), w, z) = Add(Add(d, L[e]), Add(f, L[g]))
      BY <1>2, <2>2, <3>1, <3>2, <3>3, <3>4, SumBelow
    <3>6. DotOver(Below(S, n + 1), u, x) = Add(d, f) /\ DotOver(Below(S, n + 1), v, y) = Add(e, g)
      BY <1>2, <2>2, <3>1, <3>2, <3>3, <3>4, SumBelow
    <3>7. Add(Add(d, L[e]), Add(f, L[g])) = Add(Add(d, f), Add(L[e], L[g]))
      BY AddFour
    <3> QED
      BY <3>5, <3>6, <3>7
  <2> QED
    BY <2>1, <2>2
<1>3. N \in G
  <2> HIDE DEF G
  <2> QED
    BY <1>1, <1>2, UpTo, SizeAssumption
<1> QED
  BY <1>3, BelowEnds

\* A sum whose terms are sums u x + t * (v y) is such a sum itself.
LEMMA SumLinear ==
  ASSUME NEW S \in SUBSET Row, NEW t \in Fin,
         NEW u \in Vector, NEW x \in Vector, NEW v \in Vector, NEW y \in Vector,
         NEW w \in Vector, NEW z \in Vector,
         \A c \in S : Mul(w[c], z[c]) = Add(Mul(u[c], x[c]), Mul(t, Mul(v[c], y[c])))
  PROVE  DotOver(S, w, z) = Add(DotOver(S, u, x), Mul(t, DotOver(S, v, y)))
<1> DEFINE L == [q \in Fin |-> Mul(t, q)]
<1>1. L \in [Fin -> Fin] /\ L[Zero] = Zero
  BY FinClosed, TimesZero
<1>5. ASSUME NEW p \in Fin, NEW q \in Fin PROVE L[Add(p, q)] = Add(L[p], L[q])
  <2>1. Add(p, q) \in Fin /\ Mul(t, Add(p, q)) = Add(Mul(t, p), Mul(t, q))
    BY FinClosed, FinMultiplication
  <2> QED
    BY <2>1
<1>2. ASSUME NEW c \in S
      PROVE  Mul(w[c], z[c]) = Add(Mul(u[c], x[c]), L[Mul(v[c], y[c])])
  <2>1. Mul(v[c], y[c]) \in Fin
    BY FinClosed DEF Vector
  <2> QED
    BY <2>1
<1>3. DotOver(S, v, y) \in Fin
  BY SumFinite
<1>4. L[DotOver(S, v, y)] = Mul(t, DotOver(S, v, y))
  BY <1>3
<1> HIDE DEF L
<1>6. DotOver(S, w, z) = Add(DotOver(S, u, x), L[DotOver(S, v, y)])
  <2>1. Additive(L)
    BY <1>1, <1>5 DEF Additive
  <2> QED
    BY <1>2, <2>1, SumAdditive
<1> QED
  BY <1>4, <1>6

\* Sums with the same terms are the same.
LEMMA SumSame ==
  ASSUME NEW S \in SUBSET Row, NEW u \in Vector, NEW x \in Vector,
         NEW w \in Vector, NEW z \in Vector,
         \A c \in S : Mul(w[c], z[c]) = Mul(u[c], x[c])
  PROVE  DotOver(S, w, z) = DotOver(S, u, x)
<1>1. Zero \in Fin /\ DotOver(S, u, x) \in Fin
  BY FinClosed, SumFinite
<1>2. ASSUME NEW c \in S
      PROVE  Mul(w[c], z[c]) = Add(Mul(u[c], x[c]), Mul(Zero, Mul(u[c], x[c])))
  <2>1. Mul(u[c], x[c]) \in Fin
    BY FinClosed DEF Vector
  <2> QED
    BY <2>1, TimesZero, FinAddition
<1>3. DotOver(S, w, z) = Add(DotOver(S, u, x), Mul(Zero, DotOver(S, u, x)))
  BY <1>1, <1>2, SumLinear
<1> QED
  BY <1>1, <1>3, TimesZero, FinAddition

\* Terms that are zero do not count.
LEMMA SumOutside ==
  ASSUME NEW S \in SUBSET Row, NEW u \in Vector, NEW x \in Vector,
         \A c \in Row \ S : Mul(u[c], x[c]) = Zero
  PROVE  Dot(u, x) = DotOver(S, u, x)
<1> DEFINE P(n) == DotOver(Below(Row, n), u, x) = DotOver(Below(S, n), u, x)
           G == {n \in Nat : P(n)}
<1>0. Row \in SUBSET Row
  OBVIOUS
<1>1. 0 \in G
  BY <1>0, BelowEnds
<1>2. ASSUME NEW n \in Nat, n < N, n \in G PROVE n + 1 \in G
  <2>1. n \in Row /\ DotOver(Below(S, n), u, x) \in Fin
    BY <1>2, SizeAssumption, SumFinite DEF Row, Below
  <2>2. DotOver(Below(Row, n + 1), u, x) = Add(DotOver(Below(S, n), u, x), Mul(u[n], x[n]))
    BY <1>0, <1>2, <2>1, SumBelow
  <2>3. CASE n \in S
    BY <1>2, <2>2, <2>3, SumBelow
  <2>4. CASE n \notin S
    BY <1>2, <2>1, <2>2, <2>4, SumBelow, FinAddition
  <2> QED
    BY <2>3, <2>4
<1>3. N \in G
  <2> HIDE DEF G
  <2> QED
    BY <1>1, <1>2, UpTo, SizeAssumption
<1> QED
  BY <1>0, <1>3, BelowEnds DEF Dot

\* A row operation on the coefficients is the same operation on the sum.
LEMMA DotLinear ==
  /\ \A u, x \in Vector : Dot(u, x) \in Fin
  /\ \A u, v, x \in Vector, t \in Fin :
       Dot([c \in Row |-> Add(u[c], Mul(t, v[c]))], x)
         = Add(Dot(u, x), Mul(t, Dot(v, x)))
<1>1. \A u, x \in Vector : Dot(u, x) \in Fin
  BY SumFinite DEF Dot
<1>2. ASSUME NEW u \in Vector, NEW v \in Vector, NEW x \in Vector, NEW t \in Fin
      PROVE  Dot([c \in Row |-> Add(u[c], Mul(t, v[c]))], x)
               = Add(Dot(u, x), Mul(t, Dot(v, x)))
  <2> DEFINE w == [c \in Row |-> Add(u[c], Mul(t, v[c]))]
  <2>1. w \in Vector
    BY FinClosed DEF Vector
  <2>2. ASSUME NEW c \in Row
        PROVE  Mul(w[c], x[c]) = Add(Mul(u[c], x[c]), Mul(t, Mul(v[c], x[c])))
    <3>1. u[c] \in Fin /\ v[c] \in Fin /\ x[c] \in Fin /\ Mul(t, v[c]) \in Fin
      BY FinClosed DEF Vector
    <3>2. Mul(x[c], Add(u[c], Mul(t, v[c]))) = Add(Mul(x[c], u[c]), Mul(x[c], Mul(t, v[c])))
      BY <3>1, FinMultiplication
    <3>3. Mul(x[c], Mul(t, v[c])) = Mul(t, Mul(v[c], x[c]))
      BY <3>1, FinMultiplication
    <3>4. Mul(w[c], x[c]) = Mul(x[c], Add(u[c], Mul(t, v[c])))
      BY <3>1, FinMultiplication, FinClosed
    <3> QED
      BY <3>1, <3>2, <3>3, <3>4, FinMultiplication
  <2> HIDE DEF w
  <2>3. DotOver(Row, w, x) = Add(DotOver(Row, u, x), Mul(t, DotOver(Row, v, x)))
    BY <2>1, <2>2, SumLinear
  <2> QED
    BY <2>3 DEF w, Dot
<1> QED
  BY <1>1, <1>2

-----------------------------------------------------------------------------
(* Systems of equations. *)

FiniteA == [Row -> [Row -> Fin]]
FiniteB == [Row -> [Col -> Fin]]

\* Row q of (a2, b2) is row q of (a1, b1) plus m times row p; the other rows
\* are the same.
RowAdded(a1, b1, a2, b2, p, q, m) ==
  /\ a1 \in FiniteA /\ b1 \in FiniteB
  /\ p \in Row /\ q \in Row /\ p # q /\ m \in Fin
  /\ \A r \in Row \ {q} : a2[r] = a1[r] /\ b2[r] = b1[r]
  /\ a2[q] = [d \in Row |-> Add(a1[q][d], Mul(m, a1[p][d]))]
  /\ \A c \in Col : b2[q][c] = Add(b1[q][c], Mul(m, b1[p][c]))

\* A row operation keeps the solutions.
LEMMA RowOperation ==
  ASSUME NEW a1, NEW b1, NEW a2, NEW b2, NEW p, NEW q, NEW m,
         RowAdded(a1, b1, a2, b2, p, q, m), NEW c \in Col, NEW x \in Vector
  PROVE  Solves(a1, b1, c, x) <=> Solves(a2, b2, c, x)
<1> USE DEF RowAdded
<1>1. a1[q] \in Vector /\ a1[p] \in Vector
  BY DEF FiniteA, Vector
<1>2. Dot(a2[q], x) = Add(Dot(a1[q], x), Mul(m, Dot(a1[p], x)))
  <2>1. Dot([d \in Row |-> Add(a1[q][d], Mul(m, a1[p][d]))], x)
          = Add(Dot(a1[q], x), Mul(m, Dot(a1[p], x)))
    BY <1>1, DotLinear
  <2> QED
    BY <2>1
<1>3. /\ Dot(a1[q], x) \in Fin /\ b1[q][c] \in Fin /\ b1[p][c] \in Fin
      /\ Mul(m, b1[p][c]) \in Fin
  BY <1>1, DotLinear, FinClosed DEF FiniteB
<1>4. ASSUME Dot(a1[p], x) = b1[p][c]
      PROVE  Dot(a1[q], x) = b1[q][c] <=> Dot(a2[q], x) = b2[q][c]
  BY <1>2, <1>3, <1>4, FinExact
<1>5. \A r \in Row \ {q} : Dot(a2[r], x) = b2[r][c] <=> Dot(a1[r], x) = b1[r][c]
  OBVIOUS
<1>6. p \in Row \ {q}
  OBVIOUS
<1>7. ASSUME Solves(a1, b1, c, x) PROVE Solves(a2, b2, c, x)
  <2>1. Dot(a2[q], x) = b2[q][c]
    BY <1>4, <1>7 DEF Solves
  <2> QED
    BY <1>5, <1>7, <2>1 DEF Solves
<1>8. ASSUME Solves(a2, b2, c, x) PROVE Solves(a1, b1, c, x)
  <2>1. Dot(a1[q], x) = b1[q][c]
    BY <1>4, <1>5, <1>6, <1>8 DEF Solves
  <2> QED
    BY <1>5, <1>8, <2>1 DEF Solves
<1> QED
  BY <1>7, <1>8

\* u is a row with zeros before the diagonal entry u[w], s the right-hand side
\* y with the terms after the diagonal taken off.  Then the equation u x = y
\* says x[w] = s / u[w].
LEMMA TriangularRow ==
  ASSUME NEW u \in Vector, NEW x \in Vector, NEW w \in Row,
         \A c \in Row : c < w => u[c] = Zero,
         ~Tiny(u[w]),
         NEW y \in Fin, NEW s \in Fin,
         Add(s, DotOver((w + 1) .. (N - 1), u, x)) = y
  PROVE  Dot(u, x) = y <=> x[w] = Div(s, u[w])
<1> DEFINE S == (w + 1) .. (N - 1)
           D == DotOver(S, u, x)
           M == Mul(u[w], x[w])
<1>1. S \in SUBSET Row /\ w \in Row \ S /\ (S \cup {w}) \in SUBSET Row
  BY SizeAssumption DEF Row
<1>2. ASSUME NEW c \in Row \ (S \cup {w}) PROVE Mul(u[c], x[c]) = Zero
  <2>1. u[c] = Zero /\ x[c] \in Fin
    BY SizeAssumption DEF Row, Vector
  <2> QED
    BY <2>1, TimesZero
<1>3. Dot(u, x) = DotOver(S \cup {w}, u, x)
  BY <1>1, <1>2, SumOutside
<1>4. DotOver(S \cup {w}, u, x) = Add(D, M) /\ D \in Fin
  BY <1>1, DotTerms, SumFinite
<1>5. u[w] \in Fin /\ x[w] \in Fin
  BY DEF Vector
<1>6. M \in Fin
  BY <1>5, FinClosed
<1> HIDE DEF D, S
<1>7. Add(D, M) = Add(M, D)
  BY <1>4, <1>6, FinSolve
<1>8. Add(M, D) = Add(s, D) <=> M = s
  BY <1>4, <1>6, FinExact
<1>9. M = s <=> x[w] = Div(s, u[w])
  BY <1>5, FinSolve
<1>10. Add(s, D) = y
  BY DEF D, S
<1> QED
  BY <1>3, <1>4, <1>7, <1>8, <1>9, <1>10

\* Taking one term off s adds it to the sum: s plus the sum stays the same.
LEMMA OneMoreTerm ==
  ASSUME NEW u \in Vector, NEW x \in Vector, NEW S \in SUBSET Row,
         NEW c \in Row \ S, NEW s \in Fin
  PROVE  /\ Sub(s, Mul(u[c], x[c])) \in Fin
         /\ Add(Sub(s, Mul(u[c], x[c])), DotOver(S \cup {c}, u, x))
              = Add(s, DotOver(S, u, x))
<1> DEFINE D == DotOver(S, u, x)
           M == Mul(u[c], x[c])
<1>1. DotOver(S \cup {c}, u, x) = Add(D, M) /\ D \in Fin
  BY DotTerms, SumFinite
<1>2. M \in Fin
  BY FinClosed DEF Vector
<1> HIDE DEF D, M
<1>3. Add(Sub(s, M), Add(D, M)) = Add(s, D) /\ Sub(s, M) \in Fin
  BY <1>1, <1>2, FinSolve, FinClosed
<1> QED
  BY <1>1, <1>3 DEF D, M

\* Rows after m of a column are solved, the others are still equations.
Rest(a1, b1, c, m, x) ==
  \A r \in Row : IF r > m THEN x[r] = b1[r][c] ELSE Dot(a1[r], x) = b1[r][c]

\* Storing the quotient of row w solves one more row of the column.
LEMMA SolvedRow ==
  ASSUME NEW a1 \in FiniteA, NEW b1 \in FiniteB, NEW b2, NEW c \in Col, NEW w \in Row,
         \A d \in Row : d < w => a1[w][d] = Zero,
         ~Tiny(a1[w][w]),
         NEW s \in Fin,
         \A x \in Vector : (\A r \in Row : r > w => x[r] = b1[r][c]) =>
           Add(s, DotOver((w + 1) .. (N - 1), a1[w], x)) = b1[w][c],
         b2[w][c] = Div(s, a1[w][w]),
         \A r \in Row \ {w} : b2[r][c] = b1[r][c],
         NEW x \in Vector
  PROVE  Rest(a1, b1, c, w, x) <=> Rest(a1, b2, c, w - 1, x)
<1>1. a1[w] \in Vector /\ b1[w][c] \in Fin /\ w \in Int /\ Row \subseteq Int
  BY DEF FiniteA, FiniteB, Vector, Row
<1>2. ASSUME \A r \in Row : r > w => x[r] = b1[r][c]
      PROVE  Dot(a1[w], x) = b1[w][c] <=> x[w] = b2[w][c]
  <2>1. Add(s, DotOver((w + 1) .. (N - 1), a1[w], x)) = b1[w][c]
    BY <1>2
  <2> QED
    BY <1>1, <2>1, TriangularRow
<1>3. \A r \in Row : r > w - 1 <=> r > w \/ r = w
  BY <1>1
<1>4. \A r \in Row : r > w => r # w
  BY <1>1
<1> QED
  BY <1>1, <1>2, <1>3, <1>4 DEF Rest

-----------------------------------------------------------------------------
(* Singular matrices. *)

\* The first n rows of the matrix map x to zero.
Annuls(aa, n, x) == \A r \in Row : r < n => Dot(aa[r], x) = Zero

\* A row operation with an earlier row keeps what the first n rows annul.
LEMMA KernelRowOperation ==
  ASSUME NEW a1, NEW b1, NEW a2, NEW b2, NEW p, NEW q, NEW m,
         RowAdded(a1, b1, a2, b2, p, q, m), p < q, NEW n \in Int, NEW x \in Vector
  PROVE  Annuls(a1, n, x) <=> Annuls(a2, n, x)
<1> USE DEF RowAdded
<1>1. a1[q] \in Vector /\ a1[p] \in Vector /\ p \in Int /\ q \in Int
  BY DEF FiniteA, Vector, Row
<1>2. Dot(a2[q], x) = Add(Dot(a1[q], x), Mul(m, Dot(a1[p], x)))
  <2>1. Dot([d \in Row |-> Add(a1[q][d], Mul(m, a1[p][d]))], x)
          = Add(Dot(a1[q], x), Mul(m, Dot(a1[p], x)))
    BY <1>1, DotLinear
  <2> QED
    BY <2>1
<1>3. ASSUME Dot(a1[p], x) = Zero PROVE Dot(a2[q], x) = Dot(a1[q], x)
  <2>1. Dot(a1[q], x) \in Fin
    BY <1>1, DotLinear
  <2> QED
    BY <1>2, <1>3, <2>1, FinExact
<1>4. \A r \in Row \ {q} : Dot(a2[r], x) = Dot(a1[r], x)
  OBVIOUS
<1>5. q < n => p < n
  BY <1>1
<1> QED
  BY <1>1, <1>3, <1>4, <1>5 DEF Annuls

\* The unknown w of a row enters its sum once.
LEMMA OneUnknown ==
  ASSUME NEW u \in Vector, NEW v \in Vector, NEW w \in Row, NEW q \in Fin
  PROVE  /\ [v EXCEPT ![w] = q] \in Vector
         /\ Dot(u, [v EXCEPT ![w] = q]) = Add(DotOver(Row \ {w}, u, v), Mul(u[w], q))
         /\ u[w] = Zero => Dot(u, [v EXCEPT ![w] = q]) = Dot(u, v)
<1> DEFINE v2 == [v EXCEPT ![w] = q]
<1>1. v2 \in Vector /\ v2[w] = q /\ \A c \in Row \ {w} : v2[c] = v[c]
  BY DEF Vector
<1> HIDE DEF v2
<1>2. DotOver(Row \ {w}, u, v2) = DotOver(Row \ {w}, u, v)
  BY <1>1, SumSame
<1>3. (Row \ {w}) \cup {w} = Row
  OBVIOUS
<1>4. DotOver(Row, u, v2) = Add(DotOver(Row \ {w}, u, v2), Mul(u[w], v2[w]))
  BY <1>1, <1>3, DotTerms
<1>5. ASSUME u[w] = Zero PROVE Dot(u, v2) = Dot(u, v)
  <2>1. v[w] \in Fin
    BY DEF Vector
  <2>2. Mul(u[w], v2[w]) = Mul(u[w], v[w])
    BY <1>1, <1>5, <2>1, TimesZero
  <2>3. \A c \in Row : Mul(u[c], v2[c]) = Mul(u[c], v[c])
    BY <1>1, <2>2
  <2> QED
    BY <1>1, <2>3, SumSame DEF Dot
<1> QED
  BY <1>1, <1>2, <1>4, <1>5 DEF v2, Dot

\* A row can be solved for an unknown whose coefficient is not tiny.
LEMMA SolvedFor ==
  ASSUME NEW u \in Vector, NEW v \in Vector, NEW w \in Row, ~Tiny(u[w])
  PROVE  \E q \in Fin : Dot(u, [v EXCEPT ![w] = q]) = Zero
<1> DEFINE D == DotOver(Row \ {w}, u, v)
           q == Div(Neg(D), u[w])
<1>1. D \in Fin /\ u[w] \in Fin
  BY SumFinite DEF Vector
<1> HIDE DEF D
<1>2. q \in Fin
  BY <1>1, FinClosed
<1>3. Add(D, Mul(q, u[w])) = Zero
  BY <1>1, FinExact
<1>4. Mul(u[w], q) = Mul(q, u[w])
  BY <1>1, <1>2, FinMultiplication
<1>5. Dot(u, [v EXCEPT ![w] = q]) = Add(D, Mul(u[w], q))
  <2> HIDE DEF q
  <2> QED
    BY <1>2, OneUnknown DEF D
<1> QED
  BY <1>2, <1>3, <1>4, <1>5

\* k rows in triangular form with diagonal entries that are not tiny annul a
\* vector that is not zero in k and is zero after it: it is found from row
\* k - 1 up.
LEMMA KernelVector ==
  ASSUME NEW a1 \in FiniteA, NEW k \in Row,
         \A c \in Row : c < k => ~Tiny(a1[c][c]),
         \A r, c \in Row : c < r /\ r < k => a1[r][c] = Zero
  PROVE  \E v \in Vector : /\ v[k] # Zero
                           /\ \A c \in Row : c > k => v[c] = Zero
                           /\ Annuls(a1, k, v)
<1> DEFINE Good(v, n) == /\ v[k] # Zero
                         /\ \A c \in Row : c > k => v[c] = Zero
                         /\ \A r \in Row : k - n <= r /\ r < k => Dot(a1[r], v) = Zero
           G == {n \in Nat : \E v \in Vector : Good(v, n)}
<1>0. k \in Nat /\ Row \subseteq Int /\ \A r \in Row : r >= 0
  BY SizeAssumption DEF Row
<1>1. 0 \in G
  <2>1. PICK e \in Fin : e # Zero
    BY FinNonzero
  <2> DEFINE v == [c \in Row |-> IF c = k THEN e ELSE Zero]
  <2>2. v \in Vector /\ v[k] # Zero /\ \A c \in Row : c > k => v[c] = Zero
    BY <1>0, <2>1, FinClosed DEF Vector
  <2>3. ASSUME NEW r \in Row PROVE ~(k - 0 <= r /\ r < k)
    <3>1. r \in Int
      BY <1>0
    <3>2. k \in Int /\ k - 0 = k
      BY <1>0
    <3> QED
      BY <3>1, <3>2
  <2> HIDE DEF v
  <2> QED
    BY <2>2, <2>3
<1>2. ASSUME NEW n \in Nat, n < k, n \in G PROVE n + 1 \in G
  <2>1. PICK v \in Vector : Good(v, n)
    BY <1>2
  <2> DEFINE w == k - (n + 1)
  <2>2. w \in Row /\ w < k
    BY <1>0, <1>2, SizeAssumption DEF Row
  <2>3. a1[w] \in Vector /\ ~Tiny(a1[w][w])
    BY <2>2 DEF FiniteA, Vector
  <2> HIDE DEF w
  <2>4. PICK q \in Fin : Dot(a1[w], [v EXCEPT ![w] = q]) = Zero
    BY <2>2, <2>3, SolvedFor
  <2>5. PICK v2 : v2 = [v EXCEPT ![w] = q]
    OBVIOUS
  <2>6. v2 \in Vector /\ \A c \in Row \ {w} : v2[c] = v[c]
    BY <2>2, <2>5, OneUnknown DEF Vector
  <2>7. v2[k] # Zero /\ \A c \in Row : c > k => v2[c] = Zero
    <3>1. k # w /\ \A c \in Row : c > k => c # w
      BY <1>0, <2>2
    <3> QED
      BY <2>1, <2>6, <3>1
  <2>8. ASSUME NEW r \in Row, k - (n + 1) <= r, r < k PROVE Dot(a1[r], v2) = Zero
    <3>1. CASE r = w
      BY <2>4, <2>5, <3>1
    <3>2. CASE r # w
      <4>1. k - n <= r /\ w < r
        BY <1>0, <2>8, <3>2 DEF w
      <4>2. a1[r] \in Vector /\ a1[r][w] = Zero
        BY <2>2, <2>8, <4>1 DEF FiniteA, Vector
      <4>3. Dot(a1[r], v2) = Dot(a1[r], v)
        BY <2>2, <2>5, <4>2, OneUnknown
      <4> QED
        BY <2>1, <2>8, <4>1, <4>3
    <3> QED
      BY <3>1, <3>2
  <2>9. Good(v2, n + 1)
    BY <2>7, <2>8
  <2> QED
    BY <2>6, <2>9
<1>3. k \in G
  <2> HIDE DEF G
  <2> QED
    BY <1>0, <1>1, <1>2, UpTo
<1>4. PICK v \in Vector : Good(v, k)
  BY <1>3
<1>5. \A r \in Row : r < k => k - k <= r
  BY <1>0
<1> QED
  BY <1>4, <1>5 DEF Annuls

\* Rows without an entry up to k annul a vector that is zero after k.
LEMMA NoTerms ==
  ASSUME NEW u \in Vector, NEW v \in Vector,
         \A c \in Row : u[c] = Zero \/ v[c] = Zero
  PROVE  Dot(u, v) = Zero
<1>1. \A c \in Row \ {} : Mul(u[c], v[c]) = Zero
  BY TimesZero DEF Vector
<1>2. {} \in SUBSET Row
  OBVIOUS
<1> QED
  BY <1>1, <1>2, SumOutside, DotTerms

\* Elimination has come to column k and finds only zeros there: the first n
\* rows annul a vector that is not zero.
LEMMA ZeroColumn ==
  ASSUME NEW a1 \in FiniteA, NEW k \in Row, NEW n \in Int, k < n,
         \A c \in Row : c < k => ~Tiny(a1[c][c]),
         \A r, c \in Row : c < k /\ c < r /\ r < n => a1[r][c] = Zero,
         \A r \in Row : k <= r /\ r < n => a1[r][k] = Zero
  PROVE  \E v \in Vector : /\ v[k] # Zero
                           /\ \A c \in Row : c > k => v[c] = Zero
                           /\ Annuls(a1, n, v)
<1>0. Row \subseteq Int
  BY DEF Row
<1>1. \A r, c \in Row : c < r /\ r < k => c < k /\ r < n
  BY <1>0
<1>2. PICK v \in Vector : /\ v[k] # Zero
                          /\ \A c \in Row : c > k => v[c] = Zero
                          /\ Annuls(a1, k, v)
  BY <1>1, KernelVector
<1>3. ASSUME NEW r \in Row, r < n, ~(r < k) PROVE Dot(a1[r], v) = Zero
  <2>1. a1[r] \in Vector
    BY DEF FiniteA, Vector
  <2>2. ASSUME NEW c \in Row PROVE a1[r][c] = Zero \/ v[c] = Zero
    <3>1. c < k \/ c = k \/ c > k
      BY <1>0
    <3>2. k <= r /\ (c < k => c < r)
      BY <1>0, <1>3
    <3> QED
      BY <1>2, <1>3, <3>1, <3>2
  <2> QED
    BY <2>1, <2>2, NoTerms
<1> QED
  BY <1>2, <1>3 DEF Annuls

\* n rows in triangular form with diagonal entries that are not tiny annul no
\* vector of n unknowns but zero.
LEMMA OnlyZero ==
  ASSUME NEW a1 \in FiniteA, NEW n \in 0 .. N,
         \A r \in Row : r < n => ~Tiny(a1[r][r]),
         \A r, c \in Row : c < r /\ r < n => a1[r][c] = Zero,
         NEW v \in Vector, \A c \in Row : c >= n => v[c] = Zero,
         Annuls(a1, n, v)
  PROVE  \A c \in Row : v[c] = Zero
<1> DEFINE G == {m \in Nat : \A c \in Row : c >= n - m => v[c] = Zero}
<1>0. n \in Nat /\ n <= N /\ Row \subseteq Int /\ \A r \in Row : r >= 0
  BY SizeAssumption DEF Row
<1>1. 0 \in G
  BY <1>0
<1>2. ASSUME NEW m \in Nat, m < n, m \in G PROVE m + 1 \in G
  <2> DEFINE w == n - (m + 1)
  <2>1. w \in Row /\ w < n /\ \A c \in Row : c > w => c >= n - m
    BY <1>0, <1>2, SizeAssumption DEF Row
  <2>2. \A c \in Row : c > w => v[c] = Zero
    BY <1>2, <2>1
  <2> HIDE DEF w
  <2>3. \A c \in Row : c >= w => c > w \/ c = w
    BY <1>0, <2>1
  <2>4. a1[w] \in Vector /\ ~Tiny(a1[w][w]) /\ a1[w][w] \in Fin /\ v[w] \in Fin
    BY <2>1 DEF FiniteA, Vector
  <2>5. ASSUME NEW c \in Row \ {w} PROVE Mul(a1[w][c], v[c]) = Zero
    <3>1. a1[w][c] \in Fin /\ v[c] \in Fin
      BY <2>4 DEF Vector
    <3>2. c < w \/ c > w
      BY <1>0, <2>1
    <3>3. a1[w][c] = Zero \/ v[c] = Zero
      BY <2>1, <2>2, <3>2
    <3> QED
      BY <3>1, <3>3, TimesZero
  <2>6. Dot(a1[w], v) = DotOver({w}, a1[w], v)
    BY <2>1, <2>4, <2>5, SumOutside
  <2>7. DotOver({} \cup {w}, a1[w], v) = Add(Zero, Mul(a1[w][w], v[w]))
    BY <2>1, <2>4, DotTerms
  <2>8. {} \cup {w} = {w}
    OBVIOUS
  <2>9. Mul(a1[w][w], v[w]) = Zero
    <3>1. Zero \in Fin /\ Mul(a1[w][w], v[w]) \in Fin
      BY <2>4, FinClosed
    <3>2. Add(Zero, Mul(a1[w][w], v[w])) = Mul(a1[w][w], v[w])
      BY <3>1, FinAddition
    <3> QED
      BY <2>1, <2>6, <2>7, <2>8, <3>2 DEF Annuls
  <2>10. v[w] = Zero
    <3>1. Zero \in Fin /\ Mul(a1[w][w], Zero) = Zero
      BY <2>4, FinClosed, TimesZero
    <3> QED
      BY <2>4, <2>9, <3>1, FinDivision
  <2>11. \A c \in Row : c >= w => v[c] = Zero
    BY <2>2, <2>3, <2>10
  <2> QED
    BY <2>11 DEF w
<1>3. n \in G
  <2> HIDE DEF G
  <2> QED
    BY <1>0, <1>1, <1>2, UpTo
<1>4. \A c \in Row : c >= n - n
  BY <1>0
<1> QED
  BY <1>3, <1>4

\* A regular system has one solution at most.
LEMMA UniqueSolution ==
  ASSUME NEW aa \in FiniteA, ~IsSingular(aa), NEW bb, NEW c,
         NEW x \in Vector, NEW y \in Vector,
         Solves(aa, bb, c, x), Solves(aa, bb, c, y)
  PROVE  x = y
<1> DEFINE z == [r \in Row |-> Sub(x[r], y[r])]
           L == [q \in Fin |-> q]
<1>1. z \in Vector
  BY FinClosed DEF Vector
<1>2. ASSUME NEW r \in Row PROVE Add(z[r], y[r]) = x[r]
  BY SubAdd DEF Vector
<1> HIDE DEF z
<1>3. ASSUME NEW r \in Row PROVE Dot(aa[r], z) = Zero
  <2>1. aa[r] \in Vector /\ Row \in SUBSET Row
    BY DEF FiniteA, Vector
  <2>2. ASSUME NEW d \in Row
        PROVE  Mul(aa[r][d], x[d]) = Add(Mul(aa[r][d], z[d]), L[Mul(aa[r][d], y[d])])
    <3>1. /\ aa[r][d] \in Fin /\ y[d] \in Fin /\ z[d] \in Fin
          /\ Mul(aa[r][d], y[d]) \in Fin
      BY <1>1, <2>1, FinClosed DEF Vector
    <3> QED
      BY <1>2, <3>1, FinMultiplication
  <2>3. Additive(L)
    BY FinClosed DEF Additive
  <2>4. /\ Dot(aa[r], z) \in Fin /\ Dot(aa[r], y) \in Fin /\ Zero \in Fin
        /\ Dot(aa[r], x) = Dot(aa[r], y)
    BY <1>1, <2>1, DotLinear, FinClosed DEF Solves
  <2>5. L[Dot(aa[r], y)] = Dot(aa[r], y)
    BY <2>4
  <2> HIDE DEF L
  <2>6. Dot(aa[r], x) = Add(Dot(aa[r], z), L[Dot(aa[r], y)])
    <3>1. PICK u \in Vector : u = aa[r]
      BY <2>1
    <3>2. \A d \in Row : Mul(u[d], x[d]) = Add(Mul(u[d], z[d]), L[Mul(u[d], y[d])])
      BY <2>2, <3>1
    <3>3. DotOver(Row, u, x) = Add(DotOver(Row, u, z), L[DotOver(Row, u, y)])
      BY <1>1, <2>1, <2>3, <3>2, SumAdditive
    <3> QED
      BY <3>1, <3>3 DEF Dot
  <2>7. Add(Zero, Dot(aa[r], y)) = Dot(aa[r], y)
    BY <2>4, FinAddition
  <2> QED
    BY <2>4, <2>5, <2>6, <2>7, Cancel
<1>4. \A r \in Row : z[r] = Zero
  BY <1>1, <1>3 DEF IsSingular
<1>5. ASSUME NEW r \in Row PROVE x[r] = y[r]
  <2>1. x[r] \in Fin /\ y[r] \in Fin /\ Zero \in Fin
    BY FinClosed DEF Vector
  <2> QED
    BY <1>2, <1>4, <2>1, FinAddition
<1> QED
  BY <1>5 DEF Vector

-----------------------------------------------------------------------------
(* Regular systems have a solution, where the threshold is that of zero. *)

\* x solves the system with the matrix aa and the right-hand side y.
Fits(aa, y, x) == \A r \in Row : Dot(aa[r], x) = y[r]

\* The systems (a1, y1) and (a2, y2) have the same solutions and kernels.
Equivalent(a1, y1, a2, y2) ==
  \A x \in Vector : /\ Fits(a1, y1, x) <=> Fits(a2, y2, x)
                    /\ Annuls(a1, N, x) <=> Annuls(a2, N, x)

\* Column c has a pivot on the diagonal and only zeros below it.
Cleared(aa, c) == /\ ~Tiny(aa[c][c])
                  /\ \A r \in Row : c < r => aa[r][c] = Zero

\* A row can be given any value by its unknown w.
LEMMA SetTo ==
  ASSUME NEW u \in Vector, NEW v \in Vector, NEW w \in Row, ~Tiny(u[w]), NEW y \in Fin
  PROVE  \E q \in Fin : Dot(u, [v EXCEPT ![w] = q]) = y
<1> DEFINE D == DotOver(Row \ {w}, u, v)
           q == Div(Sub(y, D), u[w])
<1>1. D \in Fin /\ u[w] \in Fin
  BY SumFinite DEF Vector
<1> HIDE DEF D
<1>2. Sub(y, D) \in Fin /\ q \in Fin
  BY <1>1, FinClosed
<1>3. Mul(u[w], q) = Sub(y, D)
  BY <1>1, <1>2, FinDivision
<1>4. Add(D, Sub(y, D)) = y
  BY <1>1, <1>2, SubAdd, FinAddition
<1>5. Dot(u, [v EXCEPT ![w] = q]) = Add(D, Mul(u[w], q))
  <2> HIDE DEF q
  <2> QED
    BY <1>2, OneUnknown DEF D
<1> QED
  BY <1>2, <1>3, <1>4, <1>5

\* A triangular system with a pivot in every column is solved from its last
\* row up.
LEMMA TriangularSolvable ==
  ASSUME NEW a1 \in FiniteA, NEW y \in Vector, \A c \in Row : Cleared(a1, c)
  PROVE  \E x \in Vector : Fits(a1, y, x)
<1> DEFINE Good(x, n) == \A r \in Row : N - n <= r => Dot(a1[r], x) = y[r]
           G == {n \in Nat : \E x \in Vector : Good(x, n)}
<1>0. N \in Nat /\ Row \subseteq Int /\ \A r \in Row : 0 <= r /\ r < N
  BY SizeAssumption DEF Row
<1>1. 0 \in G
  <2>1. y \in Vector /\ \A r \in Row : ~(N - 0 <= r)
    BY <1>0
  <2> QED
    BY <2>1
<1>2. ASSUME NEW n \in Nat, n < N, n \in G PROVE n + 1 \in G
  <2>1. PICK x \in Vector : Good(x, n)
    BY <1>2
  <2>2. PICK w \in Row : w = N - (n + 1)
    BY <1>0, <1>2 DEF Row
  <2>3. a1[w] \in Vector /\ ~Tiny(a1[w][w]) /\ y[w] \in Fin
    BY DEF FiniteA, Vector, Cleared
  <2>4. PICK q \in Fin : Dot(a1[w], [x EXCEPT ![w] = q]) = y[w]
    BY <2>3, SetTo
  <2>5. PICK x2 : x2 = [x EXCEPT ![w] = q]
    OBVIOUS
  <2>6. x2 \in Vector
    BY <2>3, <2>5, OneUnknown
  <2>7. ASSUME NEW r \in Row, N - (n + 1) <= r PROVE Dot(a1[r], x2) = y[r]
    <3>1. CASE r = w
      BY <2>4, <2>5, <3>1
    <3>2. CASE r # w
      <4>1. N - n <= r /\ w < r
        BY <1>0, <2>2, <2>7, <3>2
      <4>2. a1[r] \in Vector /\ a1[r][w] = Zero
        BY <4>1 DEF FiniteA, Vector, Cleared
      <4>3. Dot(a1[r], x2) = Dot(a1[r], x)
        BY <2>5, <4>2, OneUnknown
      <4> QED
        BY <2>1, <4>1, <4>3
    <3> QED
      BY <3>1, <3>2
  <2>8. Good(x2, n + 1)
    BY <2>7
  <2> QED
    BY <2>6, <2>8
<1>3. N \in G
  <2> HIDE DEF G
  <2> QED
    BY <1>0, <1>1, <1>2, UpTo
<1>4. PICK x \in Vector : Good(x, N)
  BY <1>3
<1>5. \A r \in Row : N - N <= r
  BY <1>0
<1> QED
  BY <1>4, <1>5 DEF Fits

\* Exchanging two rows of a system gives an equivalent one.
LEMMA RowsExchanged ==
  ASSUME NEW a1 \in FiniteA, NEW y1 \in Vector, NEW p \in Row, NEW q \in Row
  PROVE  \E a2 \in FiniteA, y2 \in Vector :
           /\ Equivalent(a1, y1, a2, y2)
           /\ a2[p] = a1[q] /\ a2[q] = a1[p]
           /\ \A r \in Row \ {p, q} : a2[r] = a1[r]
<1> DEFINE To(r) == IF r = p THEN q ELSE IF r = q THEN p ELSE r
           a2 == [r \in Row |-> a1[To(r)]]
           y2 == [r \in Row |-> y1[To(r)]]
<1>1. \A r \in Row : To(r) \in Row /\ To(To(r)) = r
  OBVIOUS
<1>2. \A r \in Row : /\ a2[r] = a1[To(r)] /\ y2[r] = y1[To(r)]
                     /\ a1[r] = a2[To(r)] /\ y1[r] = y2[To(r)]
  BY <1>1
<1>3. a2 \in FiniteA /\ y2 \in Vector
  BY DEF FiniteA, Vector
<1>4. a2[p] = a1[q] /\ a2[q] = a1[p] /\ \A r \in Row \ {p, q} : a2[r] = a1[r]
  OBVIOUS
<1>5. \A r \in Row : r < N
  BY SizeAssumption DEF Row
<1> HIDE DEF To, a2, y2
<1>6. Equivalent(a1, y1, a2, y2)
  BY <1>1, <1>2, <1>5 DEF Equivalent, Fits, Annuls
<1> QED
  BY <1>3, <1>4, <1>6

\* Adding multiples of row p to other rows gives an equivalent system.
LEMMA RowsCombined ==
  ASSUME NEW a1 \in FiniteA, NEW y1 \in Vector, NEW p \in Row, NEW m \in Vector,
         m[p] = Zero
  PROVE  \E a2 \in FiniteA, y2 \in Vector :
           /\ Equivalent(a1, y1, a2, y2)
           /\ \A r, c \in Row : a2[r][c] = Add(a1[r][c], Mul(m[r], a1[p][c]))
<1> DEFINE a2 == [r \in Row |-> [c \in Row |-> Add(a1[r][c], Mul(m[r], a1[p][c]))]]
           y2 == [r \in Row |-> Add(y1[r], Mul(m[r], y1[p]))]
<1>0. \A r \in Row : m[r] \in Fin /\ y1[r] \in Fin /\ a1[r] \in Vector /\ r < N
  BY SizeAssumption DEF Vector, FiniteA, Row
<1>1. a2 \in FiniteA
  BY <1>0, FinClosed DEF FiniteA, Vector
<1>2. y2 \in Vector
  BY <1>0, FinClosed DEF Vector
<1>3. \A r \in Row : y2[r] = Add(y1[r], Mul(m[r], y1[p]))
  OBVIOUS
<1>4. \A r, c \in Row : a2[r][c] = Add(a1[r][c], Mul(m[r], a1[p][c]))
  OBVIOUS
<1>5. ASSUME NEW x \in Vector, NEW r \in Row
      PROVE  /\ Dot(a2[r], x) = Add(Dot(a1[r], x), Mul(m[r], Dot(a1[p], x)))
             /\ Dot(a1[r], x) \in Fin /\ Dot(a1[p], x) \in Fin
  <2>1. PICK u \in Vector, v \in Vector, t \in Fin : u = a1[r] /\ v = a1[p] /\ t = m[r]
    BY <1>0
  <2>2. a2[r] = [c \in Row |-> Add(u[c], Mul(t, v[c]))]
    BY <2>1
  <2> QED
    BY <2>1, <2>2, DotLinear
<1> HIDE DEF a2, y2
<1>6. ASSUME NEW x \in Vector, NEW z \in Vector, NEW z2 \in Vector,
             \A r \in Row : z2[r] = Add(z[r], Mul(m[r], z[p]))
      PROVE  Fits(a1, z, x) <=> Fits(a2, z2, x)
  <2>1. ASSUME Fits(a1, z, x) PROVE Fits(a2, z2, x)
    BY <1>5, <1>6, <2>1 DEF Fits
  <2>2. ASSUME Fits(a2, z2, x), NEW r \in Row PROVE Dot(a1[r], x) = z[r]
    <3>1. \A e \in Row : z[e] \in Fin /\ m[e] \in Fin
      BY <1>0 DEF Vector
    <3>2. Dot(a1[p], x) = z[p]
      <4>1. Dot(a2[p], x) = Dot(a1[p], x)
        BY <1>5, FinAddition, TimesZero
      <4>2. z2[p] = z[p]
        BY <1>6, <3>1, FinAddition, TimesZero
      <4> QED
        BY <2>2, <4>1, <4>2 DEF Fits
    <3>3. Add(Dot(a1[r], x), Mul(m[r], z[p])) = Add(z[r], Mul(m[r], z[p]))
      BY <1>5, <1>6, <2>2, <3>2 DEF Fits
    <3>4. Mul(m[r], z[p]) \in Fin
      BY <3>1, FinClosed
    <3> QED
      BY <1>5, <3>1, <3>3, <3>4, Cancel
  <2> QED
    BY <2>1, <2>2 DEF Fits
<1>7. ASSUME NEW x \in Vector PROVE Annuls(a1, N, x) <=> Annuls(a2, N, x)
  <2> DEFINE z == [r \in Row |-> Zero]
  <2>1. z \in Vector /\ \A r \in Row : z[r] = Zero
    BY FinClosed DEF Vector
  <2>2. \A r \in Row : z[r] = Add(z[r], Mul(m[r], z[p]))
    BY <1>0, <2>1, FinExact, FinClosed
  <2> HIDE DEF z
  <2>3. Fits(a1, z, x) <=> Fits(a2, z, x)
    BY <1>6, <2>1, <2>2
  <2> QED
    BY <1>0, <2>1, <2>3 DEF Fits, Annuls
<1>8. Equivalent(a1, y1, a2, y2)
  BY <1>2, <1>3, <1>6, <1>7 DEF Equivalent
<1> QED
  BY <1>1, <1>2, <1>4, <1>8

\* Elimination step: a regular system whose columns before k are cleared is
\* equivalent to one with column k cleared as well.
LEMMA OneMoreColumn ==
  ASSUME \A e \in Fin : Tiny(e) => e = Zero,
         NEW a1 \in FiniteA, NEW y1 \in Vector, NEW k \in Row,
         \A c \in Row : c < k => Cleared(a1, c),
         \A v \in Vector : Annuls(a1, N, v) => \A c \in Row : v[c] = Zero
  PROVE  \E a2 \in FiniteA, y2 \in Vector :
           /\ Equivalent(a1, y1, a2, y2)
           /\ \A c \in Row : c <= k => Cleared(a2, c)
<1>0. N \in Int /\ Row \subseteq Int /\ k < N
  BY SizeAssumption DEF Row
<1>1. PICK p \in Row : k <= p /\ a1[p][k] # Zero
  <2> SUFFICES ASSUME \A r \in Row : k <= r => a1[r][k] = Zero PROVE FALSE
    OBVIOUS
  <2>1. \A c \in Row : c < k => ~Tiny(a1[c][c])
    BY DEF Cleared
  <2>2. \A r, c \in Row : c < k /\ c < r /\ r < N => a1[r][c] = Zero
    BY DEF Cleared
  <2>3. PICK v \in Vector : v[k] # Zero /\ Annuls(a1, N, v)
    BY <1>0, <2>1, <2>2, ZeroColumn
  <2> QED
    BY <2>3
<1>2. PICK a2 \in FiniteA, y2 \in Vector :
        /\ Equivalent(a1, y1, a2, y2)
        /\ a2[k] = a1[p] /\ a2[p] = a1[k]
        /\ \A r \in Row \ {k, p} : a2[r] = a1[r]
  BY RowsExchanged
<1>3. ~Tiny(a2[k][k]) /\ \A r, c \in Row : a2[r][c] \in Fin
  BY <1>1, <1>2 DEF FiniteA
<1>4. ASSUME NEW c \in Row, c < k PROVE Cleared(a2, c)
  <2>1. /\ c # k /\ c # p /\ c < p
    BY <1>0, <1>1, <1>4
  <2>2. a2[c][c] = a1[c][c] /\ Cleared(a1, c)
    BY <1>2, <1>4, <2>1
  <2>3. \A r \in Row : c < r => a2[r][c] = Zero
    BY <1>2, <1>4, <2>1, <2>2 DEF Cleared
  <2> QED
    BY <2>2, <2>3 DEF Cleared
<1> DEFINE m == [r \in Row |-> IF k < r THEN Div(Neg(a2[r][k]), a2[k][k]) ELSE Zero]
<1>5. m \in Vector /\ m[k] = Zero
  BY <1>0, <1>3, FinClosed DEF Vector
<1>6. /\ \A r \in Row : k < r => m[r] = Div(Neg(a2[r][k]), a2[k][k])
      /\ \A r \in Row : ~(k < r) => m[r] = Zero
      /\ \A r \in Row : m[r] \in Fin
  BY <1>5 DEF Vector
<1> HIDE DEF m
<1>7. PICK a3 \in FiniteA, y3 \in Vector :
        /\ Equivalent(a2, y2, a3, y3)
        /\ \A r, c \in Row : a3[r][c] = Add(a2[r][c], Mul(m[r], a2[k][c]))
  BY <1>5, RowsCombined
<1>8. ASSUME NEW r \in Row, ~(k < r), NEW c \in Row PROVE a3[r][c] = a2[r][c]
  BY <1>3, <1>6, <1>7, <1>8, TimesZero, FinAddition
<1>9. ASSUME NEW c \in Row, c < k PROVE Cleared(a3, c)
  <2>1. ~(k < c) /\ c < k
    BY <1>0, <1>9
  <2>2. a3[c][c] = a2[c][c] /\ Cleared(a2, c)
    BY <1>4, <1>8, <2>1
  <2>3. a2[k][c] = Zero
    BY <2>1, <2>2 DEF Cleared
  <2>4. ASSUME NEW r \in Row, c < r PROVE a3[r][c] = Zero
    <3>1. a2[r][c] = Zero
      BY <2>2, <2>4 DEF Cleared
    <3>2. a3[r][c] = Add(Zero, Mul(m[r], Zero))
      BY <1>7, <2>3, <3>1
    <3>3. m[r] \in Fin /\ Zero \in Fin
      BY <1>6, FinClosed
    <3> QED
      BY <3>2, <3>3, FinExact
  <2> QED
    BY <2>2, <2>4 DEF Cleared
<1>10. Cleared(a3, k)
  <2>1. a3[k][k] = a2[k][k]
    BY <1>0, <1>8
  <2>2. ASSUME NEW r \in Row, k < r PROVE a3[r][k] = Zero
    <3>1. a3[r][k] = Add(a2[r][k], Mul(Div(Neg(a2[r][k]), a2[k][k]), a2[k][k]))
      BY <1>6, <1>7, <2>2
    <3> QED
      BY <1>3, <3>1, FinExact
  <2> QED
    BY <1>3, <2>1, <2>2 DEF Cleared
<1>11. \A c \in Row : c <= k => Cleared(a3, c)
  BY <1>0, <1>9, <1>10
<1>12. Equivalent(a1, y1, a3, y3)
  BY <1>2, <1>7 DEF Equivalent
<1> QED
  BY <1>11, <1>12

\* A matrix that is not singular has a solution for every right-hand side:
\* Gaussian elimination finds it.
LEMMA RegularSolvable ==
  ASSUME \A e \in Fin : Tiny(e) => e = Zero,
         NEW aa \in FiniteA, ~IsSingular(aa), NEW y \in Vector
  PROVE  \E x \in Vector : Fits(aa, y, x)
<1> DEFINE Reached(n) ==
             \E a1 \in FiniteA, y1 \in Vector :
               /\ Equivalent(aa, y, a1, y1)
               /\ \A c \in Row : c < n => Cleared(a1, c)
           G == {n \in Nat : Reached(n)}
<1>0. N \in Nat /\ Row \subseteq Int /\ \A r \in Row : 0 <= r /\ r < N
  BY SizeAssumption DEF Row
<1>1. 0 \in G
  <2>1. Equivalent(aa, y, aa, y) /\ \A c \in Row : ~(c < 0)
    BY <1>0 DEF Equivalent
  <2> QED
    BY <2>1
<1>2. \A v \in Vector : Annuls(aa, N, v) => \A c \in Row : v[c] = Zero
  BY <1>0 DEF Annuls, IsSingular
<1>3. ASSUME NEW n \in Nat, n < N, n \in G PROVE n + 1 \in G
  <2>1. PICK a1 \in FiniteA, y1 \in Vector :
          /\ Equivalent(aa, y, a1, y1)
          /\ \A c \in Row : c < n => Cleared(a1, c)
    BY <1>3
  <2>2. n \in Row
    BY <1>0, <1>3 DEF Row
  <2>3. \A v \in Vector : Annuls(a1, N, v) => \A c \in Row : v[c] = Zero
    BY <1>2, <2>1 DEF Equivalent
  <2>4. PICK a2 \in FiniteA, y2 \in Vector :
          /\ Equivalent(a1, y1, a2, y2)
          /\ \A c \in Row : c <= n => Cleared(a2, c)
    BY <2>1, <2>2, <2>3, OneMoreColumn
  <2>5. Equivalent(aa, y, a2, y2)
    BY <2>1, <2>4 DEF Equivalent
  <2>6. \A c \in Row : c < n + 1 => c <= n
    BY <1>0
  <2>7. Reached(n + 1)
    BY <2>4, <2>5, <2>6
  <2> QED
    BY <2>7
<1>4. N \in G
  <2> HIDE DEF G
  <2> QED
    BY <1>0, <1>1, <1>3, UpTo
<1>5. PICK a1 \in FiniteA, y1 \in Vector :
        /\ Equivalent(aa, y, a1, y1)
        /\ \A c \in Row : c < N => Cleared(a1, c)
  BY <1>4
<1>6. \E x \in Vector : Fits(a1, y1, x)
  BY <1>0, <1>5, TriangularSolvable
<1> QED
  BY <1>5, <1>6 DEF Equivalent

\* A regular system has exactly one solution for all its right-hand sides, so
\* what LinearSolver promises of my_dgesv (dgesv.c, lines 6-70), and what main.c
\* expects of LAPACKE_dgesv, can always be kept, and in one way only.
THEOREM RegularHasOneSolution ==
  ASSUME \A e \in Fin : Tiny(e) => e = Zero,
         NEW aa \in FiniteA, ~IsSingular(aa), NEW bb \in FiniteB
  PROVE  \E xx \in FiniteB : \A yy \in FiniteB :
           (\A c \in Col : Solves(aa, bb, c, Column(yy, c))) <=> yy = xx
<1> DEFINE Sol(c) == CHOOSE x \in Vector : Solves(aa, bb, c, x)
           xx == [r \in Row |-> [c \in Col |-> Sol(c)[r]]]
<1>1. ASSUME NEW c \in Col PROVE Sol(c) \in Vector /\ Solves(aa, bb, c, Sol(c))
  <2>1. PICK y \in Vector : \A r \in Row : y[r] = bb[r][c]
    <3>1. [r \in Row |-> bb[r][c]] \in Vector
      BY DEF FiniteB, Vector
    <3> QED
      BY <3>1
  <2>2. PICK x \in Vector : Fits(aa, y, x)
    BY RegularSolvable
  <2>3. Solves(aa, bb, c, x)
    BY <2>1, <2>2 DEF Fits, Solves
  <2> QED
    BY <2>3
<1> HIDE DEF Sol
<1>2. xx \in FiniteB
  BY <1>1 DEF FiniteB, Vector
<1>3. ASSUME NEW c \in Col PROVE Column(xx, c) = Sol(c)
  BY <1>1, <1>3 DEF Column, Vector
<1>4. \A r \in Row, c \in Col : xx[r][c] = Sol(c)[r]
  OBVIOUS
<1> HIDE DEF xx
<1>5. \A c \in Col : Solves(aa, bb, c, Column(xx, c))
  BY <1>1, <1>3
<1>6. ASSUME NEW yy \in FiniteB, \A c \in Col : Solves(aa, bb, c, Column(yy, c))
      PROVE  yy = xx
  <2>1. ASSUME NEW c \in Col PROVE Column(yy, c) = Sol(c)
    <3>1. Column(yy, c) \in Vector
      BY DEF Column, FiniteB, Vector
    <3> QED
      BY <1>1, <1>6, <3>1, UniqueSolution
  <2>2. \A r \in Row, c \in Col : yy[r][c] = xx[r][c]
    BY <1>4, <2>1 DEF Column
  <2> QED
    BY <1>2, <2>2 DEF FiniteB
<1> QED
  BY <1>2, <1>5, <1>6

=============================================================================
